---- MODULE Spec2Model ----
(***************************************************************************)
(* Model of the realtime voice session provider of lilac                   *)
(* (src/src/realtime/provider.tsx): the generation-guarded start()/stop()  *)
(* lifecycle, the data-channel message router and the transcript ordering  *)
(* function orderTranscriptsByPreviousItemId.                              *)
(*                                                                         *)
(* Three specifications share the variables:                               *)
(*   SpecOrder    the pure ordering function applied to bounded inputs     *)
(*   SpecSession  start()/stop() calls interleaved at every await          *)
(*   SpecRouter   protocol messages and sendText within one session        *)
(*                                                                         *)
(* JavaScript values: identifiers are positive integers, null is Null,     *)
(* undefined (an absent field, a missing map row) is Undef.  A text is a   *)
(* sequence of characters, the character WS being white space.  A React    *)
(* state updater is applied within the handler that enqueues it (§5 of the *)
(* specification: handlers are atomic between suspension points).          *)
(***************************************************************************)
EXTENDS Integers, Sequences, FiniteSets, TLC

\* ------------------------------------------------------------------ bounds
\* Longest entry list handed to the ordering function under SpecOrder.
MaxLen == 3
\* Number of calls of start() and stop() together made under SpecSession.
MaxCalls == 3
\* Number of identifiers sendText draws from crypto.randomUUID in one session.
MaxTexts == 1
\* Number of data-channel operations in one session: messages delivered and
\* texts sent.
MaxMsgs == 3

\* ------------------------------------------------------------ JS sentinels
Null == 0
Undef == 0 - 1
WS == 0

\* ------------------------------------------------------------- Map helpers
\* A JavaScript Map is a function whose DOMAIN is the set of its keys.
EmptyMap == [k \in {} |-> Null]
MapHas(m, k) == k \in DOMAIN m
MapGet(m, k) == IF k \in DOMAIN m THEN m[k] ELSE Undef
MapSet(m, k, v) == [x \in (DOMAIN m) \cup {k} |-> IF x = k THEN v ELSE m[x]]
MapDelete(m, k) == [x \in (DOMAIN m) \ {k} |-> m[x]]

\* Array.prototype.findIndex(item => item.id === id): 0 stands for -1.
FindIndex(list, id) ==
    IF \E i \in 1..Len(list) : list[i].id = id
    THEN CHOOSE i \in 1..Len(list) :
            /\ list[i].id = id
            /\ \A j \in 1..(i - 1) : list[j].id # id
    ELSE 0

IdsOf(list) == [i \in 1..Len(list) |-> list[i].id]

\* ------------------------------------------- orderTranscriptsByPreviousItemId
\* originalIndex = new Map(ids.map((id, idx) => [id, idx])): the last index wins.
OriginalIndex(ids, id) ==
    IF \E i \in 1..Len(ids) : ids[i] = id
    THEN CHOOSE i \in 1..Len(ids) :
            /\ ids[i] = id
            /\ \A j \in (i + 1)..Len(ids) : ids[j] # id
    ELSE 0

\* byId = new Map(list.map(item => [item.id, item])): the last entry wins.
ById(list, id) == list[OriginalIndex(IdsOf(list), id)]

\* prevById: the stored hint (a stored undefined reads as null), or Undef
\* when the hint table has no row for the id.
PrevById(previousItemIdById, id) ==
    IF MapHas(previousItemIdById, id)
    THEN (IF previousItemIdById[id] = Undef THEN Null ELSE previousItemIdById[id])
    ELSE Undef

\* arr.sort((a, b) => originalIndex.get(a) - originalIndex.get(b)): a stable
\* sort by original index, written as an insertion sort.
RECURSIVE InsertByIndex(_, _, _)
InsertByIndex(sorted, x, ids) ==
    IF sorted = << >> THEN << x >>
    ELSE IF OriginalIndex(ids, sorted[Len(sorted)]) <= OriginalIndex(ids, x)
         THEN Append(sorted, x)
         ELSE Append(InsertByIndex(SubSeq(sorted, 1, Len(sorted) - 1), x, ids),
                     sorted[Len(sorted)])

RECURSIVE SortByIndex(_, _)
SortByIndex(arr, ids) ==
    IF arr = << >> THEN << >>
    ELSE InsertByIndex(SortByIndex(SubSeq(arr, 1, Len(arr) - 1), ids),
                       arr[Len(arr)], ids)

\* childrenByPrev.get(key): the ids whose hint is key, in list order, then
\* sorted by original index.  The key of a null hint is ROOT, which is Null
\* here (no identifier is Null).
ChildrenByPrev(ids, previousItemIdById, key) ==
    LET IsKid(id) == PrevById(previousItemIdById, id) = key
    IN  SortByIndex(SelectSeq(ids, IsKid), ids)

\* const visit = (id) => {...}: depth-first emission below id.  st is the
\* pair of the visited set and the out array.
RECURSIVE Visit(_, _, _, _)
RECURSIVE VisitEach(_, _, _, _)
Visit(id, st, ids, previousItemIdById) ==
    IF id \in st.visited THEN st
    ELSE VisitEach(ChildrenByPrev(ids, previousItemIdById, id),
                   [visited |-> st.visited \cup {id}, out |-> Append(st.out, id)],
                   ids, previousItemIdById)
VisitEach(seq, st, ids, previousItemIdById) ==
    IF seq = << >> THEN st
    ELSE VisitEach(Tail(seq), Visit(Head(seq), st, ids, previousItemIdById),
                   ids, previousItemIdById)

\* roots: hinted entries whose hint is null or names no entry of the list.
\* An entry without a row in the hint table is skipped here.
Roots(ids, previousItemIdById) ==
    LET IsRoot(id) ==
            LET prev == PrevById(previousItemIdById, id)
            IN  /\ prev # Undef
                /\ \/ prev = Null
                   \/ ~(\E i \in 1..Len(ids) : ids[i] = prev)
    IN  SortByIndex(SelectSeq(ids, IsRoot), ids)

\* Mutant: the entries the roots do not reach are left out.
OrderedIdsFromRootsOnly(ids, previousItemIdById) ==
    VisitEach(Roots(ids, previousItemIdById), [visited |-> {}, out |-> << >>],
              ids, previousItemIdById).out

\* The body of the function after the early return: out, as identifiers.
OrderedIds(ids, previousItemIdById) ==
    LET afterRoots == VisitEach(Roots(ids, previousItemIdById),
                                [visited |-> {}, out |-> << >>],
                                ids, previousItemIdById)
        NotVisited(id) == id \notin afterRoots.visited
        remaining == SortByIndex(SelectSeq(ids, NotVisited), ids)
    IN  VisitEach(remaining, afterRoots, ids, previousItemIdById).out

\* Mutant: the function always returns a newly built array.
orderAlwaysCopies(list, previousItemIdById) ==
    IF Len(list) <= 1 THEN [list |-> list, same |-> TRUE]
    ELSE LET out == OrderedIds(IdsOf(list), previousItemIdById)
         IN  [list |-> [i \in 1..Len(out) |-> ById(list, out[i])], same |-> FALSE]

\* The function.  Its result is the returned list together with same, which
\* is TRUE when the returned array is the very array that was passed in.
orderTranscriptsByPreviousItemId(list, previousItemIdById) ==
    IF Len(list) <= 1 THEN [list |-> list, same |-> TRUE]
    ELSE LET out == OrderedIds(IdsOf(list), previousItemIdById)
             ordered == [i \in 1..Len(out) |-> ById(list, out[i])]
             unchanged == /\ Len(ordered) = Len(list)
                          /\ \A i \in 1..Len(ordered) : ordered[i].id = list[i].id
         IN  IF unchanged THEN [list |-> list, same |-> TRUE]
             ELSE [list |-> ordered, same |-> FALSE]

\* An entry with nothing but its id (the ordering function reads only the id).
PlainEntry(id) ==
    [id |-> id, role |-> "user", text |-> << >>, status |-> "streaming",
     source |-> "input_transcription"]

\* ------------------------------------------------------------------ texts
\* String.prototype.trim(): leading and trailing white space removed.
RECURSIVE TrimStart(_)
TrimStart(text) ==
    IF text # << >> /\ Head(text) = WS THEN TrimStart(Tail(text)) ELSE text
RECURSIVE TrimEnd(_)
TrimEnd(text) ==
    IF text # << >> /\ text[Len(text)] = WS
    THEN TrimEnd(SubSeq(text, 1, Len(text) - 1))
    ELSE text
Trim(text) == TrimEnd(TrimStart(text))

\* ------------------------------------------------------- upsertTranscript
\* The argument of upsertTranscript.  An optional string field is a flag and
\* a value; previousItemId is an id, Null, or Undef when the key is absent.
Update(id, role, source, hasAppend, appendDelta, hasReplace, replaceText, finalize, previousItemId) ==
    [id |-> id, role |-> role, source |-> source,
     hasAppend |-> hasAppend, appendDelta |-> appendDelta,
     hasReplace |-> hasReplace, replaceText |-> replaceText,
     finalize |-> finalize, previousItemId |-> previousItemId]

\* What the updater of upsertTranscript reads and writes: the list (t), the
\* hint table (prev) and the preferred-source table (pref).
Tables(t, prev, pref) == [t |-> t, prev |-> prev, pref |-> pref]

\* Mutant: an update that does not finalize leaves the entry streaming.
NextStatusReopens(update, hasExisting, existing) ==
    IF update.finalize THEN "final" ELSE "streaming"

\* status: update.finalize ? 'final' : (existing?.status ?? 'streaming')
NextStatus(update, hasExisting, existing) ==
    IF update.finalize THEN "final"
    ELSE IF hasExisting THEN existing.status ELSE "streaming"

\* text: replaceText, or the delta alone when a text-stream delta meets an
\* audio-transcript entry, or the existing text with the delta appended.
NextText(update, hasExisting, existing) ==
    LET shouldResetAssistantText ==
            /\ ~update.hasReplace
            /\ hasExisting
            /\ existing.role = "assistant"
            /\ existing.source = "response_audio_transcript"
            /\ update.source = "response_text"
            /\ update.hasAppend
        delta == IF update.hasAppend THEN update.appendDelta ELSE << >>
    IN  IF update.hasReplace THEN update.replaceText
        ELSE IF shouldResetAssistantText THEN delta
        ELSE (IF hasExisting THEN existing.text ELSE << >>) \o delta

\* The guard that keeps assistant text from being overwritten by audio
\* transcript deltas.
KeepsAssistantText(update, hasExisting, existing) ==
    /\ hasExisting
    /\ existing.role = "assistant"
    /\ existing.source = "response_text"
    /\ Len(Trim(existing.text)) > 0
    /\ update.source = "response_audio_transcript"

\* Mutant: every update adds an entry and the list is left as it is.
upsertAlwaysAppends(st, update) ==
    LET next == [id |-> update.id, role |-> update.role, source |-> update.source,
                 status |-> IF update.finalize THEN "final" ELSE "streaming",
                 text |-> IF update.hasReplace THEN update.replaceText
                          ELSE IF update.hasAppend THEN update.appendDelta ELSE << >>]
    IN  Tables(Append(st.t, next), st.prev, st.pref)

upsertTranscript(st, update) ==
    LET idx == FindIndex(st.t, update.id)
        hasExisting == idx # 0
        \* without an existing entry, existing is a filler that is never read
        existing == IF hasExisting THEN st.t[idx] ELSE PlainEntry(update.id)
    IN  IF KeepsAssistantText(update, hasExisting, existing) THEN st
        ELSE
        LET next == [id |-> update.id, role |-> update.role, source |-> update.source,
                     status |-> NextStatus(update, hasExisting, existing),
                     text |-> NextText(update, hasExisting, existing)]
            prev2 == IF update.previousItemId # Undef
                     THEN MapSet(st.prev, update.id, update.previousItemId)
                     ELSE st.prev
            pref2 == IF /\ next.role = "assistant"
                        /\ next.source \in {"response_text", "response_audio_transcript"}
                     THEN MapSet(st.pref, next.id, next.source)
                     ELSE st.pref
            copy == IF idx = 0 THEN Append(st.t, next) ELSE [st.t EXCEPT ![idx] = next]
        IN  Tables(orderTranscriptsByPreviousItemId(copy, prev2).list, prev2, pref2)

\* reorderTranscripts
reorderTranscripts(t, prev) == orderTranscriptsByPreviousItemId(t, prev).list

\* ---------------------------------------------- finalizeAssistantTranscript
\* Index of the last assistant entry that is not final (0 when there is none).
LastStreamingAssistant(t) ==
    LET open == { i \in 1..Len(t) : t[i].role = "assistant" /\ t[i].status # "final" }
    IN  IF open = {} THEN 0 ELSE CHOOSE i \in open : \A j \in open : j <= i

\* Mutant: without an id nothing is finalized.
finalizeBoundOnly(t, prev, assistantId) ==
    IF assistantId # Undef
    THEN LET idx == FindIndex(t, assistantId)
         IN  IF idx = 0 THEN t
             ELSE IF t[idx].status = "final" THEN t
             ELSE orderTranscriptsByPreviousItemId(
                      [t EXCEPT ![idx].status = "final"], prev).list
    ELSE t

\* assistantId is an entry id, or Undef when the caller passed undefined.
finalizeAssistantTranscript(t, prev, assistantId) ==
    IF assistantId # Undef
    THEN LET idx == FindIndex(t, assistantId)
         IN  IF idx = 0 THEN t
             ELSE IF t[idx].status = "final" THEN t
             ELSE orderTranscriptsByPreviousItemId(
                      [t EXCEPT ![idx].status = "final"], prev).list
    ELSE LET i == LastStreamingAssistant(t)
         IN  IF i = 0 THEN t
             ELSE orderTranscriptsByPreviousItemId(
                      [t EXCEPT ![i].status = "final"], prev).list

\* --------------------------------------------------------------- variables
VARIABLES
    \* RealtimeProvider: React state and refs
    remoteStream,                       \* useState: the call whose stream is published, or Null
    dataChannel,                        \* useState: the call whose channel is published, or Null
    transcripts,                        \* useState: the displayed entry list
    peerRef,                            \* peerRef.current: the call whose connection is stored
    localRef,                           \* localRef.current: the call whose microphone is stored
    startGeneration,                    \* startGenerationRef.current
    assistantMessageIdByResponseId,     \* Map response id -> entry id
    assistantPreferredSourceById,       \* Map entry id -> source
    transcriptionConfigMode,            \* "modern" | "legacy"
    previousItemIdById,                 \* Map entry id -> predecessor id | Null
    anchoredInputIdByResponseId,        \* Map response id -> user turn id
    latestCommittedInputItemId,         \* entry id | Null
    pendingAssistantDeltasByResponseId, \* Map response id -> [text, audioTranscript]
    \* the environment and the calls in flight
    calls,      \* one record per start() call: its position, locals and resources
    stops,      \* number of stop() calls made
    msgs,       \* number of data-channel messages delivered
    lastOp,     \* history: the kind of the last step and the entry id it aimed at
    lastSent,   \* messages the last operation sent on the data channel
    lastReturn, \* what the last operation returned, when it was sendText
    \* SpecOrder
    oList,      \* the entry list given to the ordering function
    oHints,     \* the hint table given to it
    oFirst,     \* result of the first application
    oSecond,    \* result of applying it to its own output
    oPhase,     \* how many applications have been made (0..2; 3 after a hint update)
    oRehinted,  \* the tables after a hint update of a displayed entry
    \* turn delay
    turnDelaySecondsRef,    \* turnDelaySecondsRef.current, in milliseconds
    delayArg,               \* history: the argument of the last updateTurnDelaySeconds
    \* the provider with the restart coordinator: state, refs and environment
    coordRemoteStream,      \* useState remoteStream: the run whose stream is published
    coordDataChannel,       \* useState dataChannel: the run whose channel is published
    coordPeerRef,           \* peerRef.current: the run whose connection is stored
    coordLocalRef,          \* localRef.current: the run whose microphone is stored
    trackMonitorCleanupRef, \* the run whose monitor the stored disposer removes
    lastStartOptsRef,       \* whether lastStartOptsRef.current holds options
    startInProgressRef,
    restartingSessionRef,
    restartTimerRef,        \* handle of the stored restart timer, or Null
    timers,                 \* pending restart timers: handle -> delay in ms
    runs,                   \* one record per execution of the body of start()
    coordOp,                \* history: what the last step did
    sessionWanted,          \* history: the caller's last call was start(), not stop()
    \* the provider that restarts the microphone: refs and environment
    micPeerRef,             \* peerRef.current: the stored connection, or Null
    micLocalRef,            \* localRef.current: the stored stream, or Null
    micMonitorCleanupRef,   \* the stream whose monitor the stored disposer removes
    restartingMicRef,
    restartAttemptsRef,     \* restartAttemptsRef.current.count
    micStreams,             \* one record per stream getUserMedia has returned
    micRestarts             \* one record per execution of restartLocalStream past its guards

publishedVars == << remoteStream, dataChannel >>
refVars == << peerRef, localRef, startGeneration >>
tableVars == << assistantMessageIdByResponseId, assistantPreferredSourceById,
                previousItemIdById, anchoredInputIdByResponseId,
                latestCommittedInputItemId, pendingAssistantDeltasByResponseId >>
routerVars == << transcripts, tableVars, transcriptionConfigMode >>
envVars == << calls, stops, msgs, lastOp, lastSent, lastReturn >>
orderVars == << oList, oHints, oFirst, oSecond, oPhase, oRehinted >>
delayVars == << turnDelaySecondsRef, delayArg >>
coordVars == << coordRemoteStream, coordDataChannel, coordPeerRef, coordLocalRef,
               trackMonitorCleanupRef, lastStartOptsRef, startInProgressRef,
               restartingSessionRef, restartTimerRef, timers, runs, coordOp,
               sessionWanted >>
micVars == << micPeerRef, micLocalRef, micMonitorCleanupRef, restartingMicRef,
             restartAttemptsRef, micStreams, micRestarts >>
sideVars == << delayVars, coordVars, micVars >>
vars == << publishedVars, refVars, routerVars, envVars, orderVars, sideVars >>

\* ------------------------------------------------------------- turn delay
\* Numbers are a record: a finite one carries its value in milliseconds, and
\* NaN and the two infinities are the values that are not finite.  On the
\* millisecond grid Math.round(x * 10) / 10 in doubles is the decimal
\* rounding to a tenth with halves going up.
Num(ms) == [finite |-> TRUE, ms |-> ms]
NaN == [finite |-> FALSE, ms |-> 0]
PosInfinity == [finite |-> FALSE, ms |-> 1]
NegInfinity == [finite |-> FALSE, ms |-> 0 - 1]
Min(a, b) == IF a < b THEN a ELSE b
Max(a, b) == IF a > b THEN a ELSE b
\* Math.round(ms / 100) * 100: the nearest tenth of a second, halves up.
RoundToTenth(ms) == ((ms + 50) \div 100) * 100

defaultTurnDelaySeconds == 1200

normalizeTurnDelayRoundsDown(value) ==
    IF ~value.finite THEN Null
    ELSE (Min(6000, Max(200, value.ms)) \div 100) * 100

\* The normalized delay in milliseconds, or Null.
normalizeTurnDelaySeconds(value) ==
    IF ~value.finite THEN Null
    ELSE RoundToTenth(Min(6000, Max(200, value.ms)))

\* Values window.localStorage may hold under the key: none, text that is
\* not a number, and a number.
NoStored == [finite |-> FALSE, ms |-> 2]
StoredValues == { NoStored, NaN, Num(1270) }
getInitialTurnDelaySeconds(stored) ==
    LET normalized == IF stored = NoStored THEN Null
                      ELSE normalizeTurnDelaySeconds(stored)
    IN  IF normalized = Null THEN defaultTurnDelaySeconds ELSE normalized

NoArg == [finite |-> FALSE, ms |-> 3]
DelayIdle ==
    /\ turnDelaySecondsRef = getInitialTurnDelaySeconds(NoStored)
    /\ delayArg = NoArg
\* The provider with the restart coordinator as constructed.
CoordIdle ==
    /\ coordRemoteStream = Null
    /\ coordDataChannel = Null
    /\ coordPeerRef = Null
    /\ coordLocalRef = Null
    /\ trackMonitorCleanupRef = Null
    /\ lastStartOptsRef = FALSE
    /\ startInProgressRef = FALSE
    /\ restartingSessionRef = FALSE
    /\ restartTimerRef = Null
    /\ timers = EmptyMap
    /\ runs = << >>
    /\ coordOp = "other"
    /\ sessionWanted = FALSE
\* The provider that restarts the microphone, as constructed.
MicIdle ==
    /\ micPeerRef = Null
    /\ micLocalRef = Null
    /\ micMonitorCleanupRef = Null
    /\ restartingMicRef = FALSE
    /\ restartAttemptsRef = 0
    /\ micStreams = << >>
    /\ micRestarts = << >>
SideIdle == DelayIdle /\ CoordIdle /\ MicIdle

\* The provider as constructed (useState / useRef initial values).
ProviderInit ==
    /\ remoteStream = Null
    /\ dataChannel = Null
    /\ transcripts = << >>
    /\ peerRef = Null
    /\ localRef = Null
    /\ startGeneration = 0
    /\ assistantMessageIdByResponseId = EmptyMap
    /\ assistantPreferredSourceById = EmptyMap
    /\ transcriptionConfigMode = "modern"
    /\ previousItemIdById = EmptyMap
    /\ anchoredInputIdByResponseId = EmptyMap
    /\ latestCommittedInputItemId = Null
    /\ pendingAssistantDeltasByResponseId = EmptyMap
    /\ calls = << >>
    /\ stops = 0
    /\ msgs = 0
    /\ lastOp = [kind |-> "init", id |-> Null]
    /\ lastSent = << >>
    /\ lastReturn = FALSE

\* ------------------------------------------------------ SpecOrder: inputs
\* Every arrival order of the identifiers 1..n.
ArrivalOrders(n) ==
    { s \in [1..n -> 1..n] : \A i, j \in 1..n : i # j => s[i] # s[j] }

\* A hint names an entry of the list, an identifier outside it (dangling) or
\* null; any subset of the entries has a row.
HintTables(n) ==
    UNION { [D -> {Null} \cup (1..(n + 1))] : D \in SUBSET (1..n) }

\* Placeholder of a result before the function has been applied.
NoResult == [list |-> << >>, same |-> FALSE]

\* Placeholder of the tables before a hint update has been made.
NoTables == Tables(<< >>, EmptyMap, EmptyMap)

OrderIdle ==
    /\ oList = << >>
    /\ oHints = EmptyMap
    /\ oFirst = NoResult
    /\ oSecond = NoResult
    /\ oPhase = 0
    /\ oRehinted = NoTables

OrderInit ==
    /\ ProviderInit
    /\ \E n \in 0..MaxLen :
          /\ oList \in { [i \in 1..n |-> PlainEntry(s[i])] : s \in ArrivalOrders(n) }
          /\ oHints \in HintTables(n)
    /\ oFirst = NoResult
    /\ oSecond = NoResult
    /\ oPhase = 0
    /\ oRehinted = NoTables
    /\ SideIdle

ApplyOrder ==
    /\ oPhase = 0
    /\ oFirst' = orderTranscriptsByPreviousItemId(oList, oHints)
    /\ oPhase' = 1
    /\ UNCHANGED << oList, oHints, oSecond, oRehinted >>
    /\ UNCHANGED << publishedVars, refVars, routerVars, envVars, sideVars >>

ReapplyOrder ==
    /\ oPhase = 1
    /\ oSecond' = orderTranscriptsByPreviousItemId(oFirst.list, oHints)
    /\ oPhase' = 2
    /\ UNCHANGED << oList, oHints, oFirst, oRehinted >>
    /\ UNCHANGED << publishedVars, refVars, routerVars, envVars, sideVars >>

\* upsertTranscript of a displayed entry with a previousItemId: the hint of
\* the entry is set and the displayed list is ordered again.
RehintOrder ==
    /\ oPhase = 1
    /\ \E id \in 1..Len(oList), previousItemId \in {Null} \cup (1..(Len(oList) + 1)) :
          oRehinted' = upsertTranscript(Tables(oFirst.list, oHints, EmptyMap),
                                        Update(id, "user", "input_transcription", FALSE, << >>,
                                               FALSE, << >>, FALSE, previousItemId))
    /\ oPhase' = 3
    /\ UNCHANGED << oList, oHints, oFirst, oSecond >>
    /\ UNCHANGED << publishedVars, refVars, routerVars, envVars, sideVars >>

OrderNext == ApplyOrder \/ ReapplyOrder \/ RehintOrder

SpecOrder == OrderInit /\ [][OrderNext]_vars

\* What a step shows to its caller and puts on the wire.
Outputs(kind, sent, returned) ==
    /\ lastOp' = [kind |-> kind, id |-> Null]
    /\ lastSent' = sent
    /\ lastReturn' = returned

\* ------------------------------------------------ start(): calls in flight
\* Positions of a start() call: the await it is suspended at, or "returned".
\*   token      await createRealtimeSession(...)
\*   mic        await navigator.mediaDevices.getUserMedia(...)
\*   offer      await pc.createOffer()
\*   setLocal   await pc.setLocalDescription(offer)
\*   fetch      await fetch(...)
\*   errorBody  await resp.text().catch(() => '')   (handshake not ok)
\*   answer     await resp.text()
\*   setRemote  await pc.setRemoteDescription(...)
\* A call creates at most one microphone stream and one peer connection, so
\* both are named by the call: micState and pcState are their states, dcOpen
\* says whether the data channel of the connection has fired 'open'.
\* History fields: supersededBy (the operation, "start" or "stop", that raised
\* the generation while the call was suspended at an await), staleMicRequest
\* (getUserMedia was called by the call when it was no longer current),
\* failedAt (what failed while the call was current: "token", "mic",
\* "handshake" for a non-success status, "negotiation" for another await of
\* the connection set-up; or "none").
NewCall(generation) ==
    [generation |-> generation, loc |-> "token", outcome |-> "pending",
     micState |-> "none", pcState |-> "none", dcOpen |-> FALSE,
     supersededBy |-> "none", staleMicRequest |-> FALSE, failedAt |-> "none"]

CallIds == 1..Len(calls)

\* Mutant: the generation comparison never reports a superseded call.
IsStaleNever(c) == FALSE

\* startGenerationRef.current !== generation
IsStale(c) == startGeneration # calls[c].generation

\* pc.close() / pc?.close() on the local pc of a call record; closing the
\* connection closes its data channel.
ClosePc(r) ==
    [r EXCEPT !.pcState = IF @ = "none" THEN "none" ELSE "closed", !.dcOpen = FALSE]
\* for (const track of mic.getTracks()) track.stop()
StopMic(r) == [r EXCEPT !.micState = IF @ = "none" THEN "none" ELSE "stopped"]
Return(r, outcome) == [r EXCEPT !.loc = "returned", !.outcome = outcome]

\* Mutant: the stale branch after getUserMedia returns without stopping the tracks.
AbortAfterMicLeaks(r) == Return(r, "resolved")

\* The stale branch after getUserMedia: stop the tracks and return.
AbortAfterMic(r) == Return(StopMic(r), "resolved")
\* The stale branch after the later awaits: close pc, stop the tracks, return.
AbortWithPeer(r) == Return(StopMic(ClosePc(r)), "resolved")

\* Mutant: the catch block rethrows without closing pc.
CatchStartKeepsPeer(r, stale) ==
    IF stale THEN Return(r, "resolved") ELSE Return(StopMic(r), "rejected")

\* catch (error): a stale call returns; a current one closes pc, stops the
\* tracks and rethrows.
CatchStart(r, stale) ==
    IF stale THEN Return(r, "resolved")
    ELSE Return(StopMic(ClosePc(r)), "rejected")

\* ---------------------------------------------------------------- cleanup
\* peerRef.current?.close() and track.stop() for localRef.current, on calls.
CleanupCalls ==
    [c \in CallIds |->
        LET closed == IF c = peerRef THEN ClosePc(calls[c]) ELSE calls[c]
        IN  IF c = localRef THEN StopMic(closed) ELSE closed]

\* The refs cleared by cleanup() and by clearTranscripts().
ClearTables ==
    /\ assistantMessageIdByResponseId' = EmptyMap
    /\ assistantPreferredSourceById' = EmptyMap
    /\ previousItemIdById' = EmptyMap
    /\ anchoredInputIdByResponseId' = EmptyMap
    /\ latestCommittedInputItemId' = Null
    /\ pendingAssistantDeltasByResponseId' = EmptyMap

\* Mutant: cleanup leaves the published data channel in place.
cleanupKeepsChannel ==
    /\ peerRef' = Null
    /\ localRef' = Null
    /\ remoteStream' = Null
    /\ UNCHANGED dataChannel
    /\ ClearTables

\* cleanup(), but for its effect on the connection and the tracks (CleanupCalls)
cleanup ==
    /\ peerRef' = Null
    /\ localRef' = Null
    /\ remoteStream' = Null
    /\ dataChannel' = Null
    /\ ClearTables

clearTranscripts ==
    /\ transcripts' = << >>
    /\ ClearTables

\* History: the call that was current and in flight is superseded by op.
MarkSuperseded(cs, op) ==
    [c \in DOMAIN cs |->
        IF cs[c].loc # "returned" /\ cs[c].generation = startGeneration
        THEN [cs[c] EXCEPT !.supersededBy = op]
        ELSE cs[c]]

\* start(opts), up to its first await
Start ==
    /\ Len(calls) + stops < MaxCalls
    /\ startGeneration' = startGeneration + 1
    /\ cleanup
    /\ clearTranscripts
    /\ calls' = Append(MarkSuperseded(CleanupCalls, "start"),
                       NewCall(startGeneration + 1))
    /\ Outputs("start", << >>, FALSE)
    /\ UNCHANGED << transcriptionConfigMode, stops, msgs, orderVars, sideVars >>

\* stop()
Stop ==
    /\ Len(calls) + stops < MaxCalls
    /\ startGeneration' = startGeneration + 1
    /\ cleanup
    /\ clearTranscripts
    /\ calls' = MarkSuperseded(CleanupCalls, "stop")
    /\ stops' = stops + 1
    /\ Outputs(IF lastOp.kind \in {"stop", "stop again"} THEN "stop again" ELSE "stop",
               << >>, FALSE)
    /\ UNCHANGED << transcriptionConfigMode, msgs, orderVars, sideVars >>

\* A step of a suspended call that touches nothing but the call itself.
CallStep(c, r) ==
    /\ calls' = [calls EXCEPT ![c] = r]
    /\ Outputs("other", << >>, FALSE)
    /\ UNCHANGED << publishedVars, refVars, routerVars, stops, msgs, orderVars, sideVars >>

\* An await of the call rejects: control enters the catch block.
Rejected(c, at, what) ==
    /\ calls[c].loc \in at
    /\ CallStep(c, [CatchStart(calls[c], IsStale(c)) EXCEPT
                        !.failedAt = IF IsStale(c) THEN "none" ELSE what])

\* createRealtimeSession resolved.  start() goes on to getUserMedia without
\* looking at the generation.
TokenResolved(c) ==
    /\ calls[c].loc = "token"
    /\ CallStep(c, [calls[c] EXCEPT !.loc = "mic", !.staleMicRequest = IsStale(c)])

TokenRejected(c) == Rejected(c, {"token"}, "token")

\* getUserMedia resolved: the microphone is live.  A stale call stops it and
\* returns; a current one stores it, creates the peer connection and the
\* data channel, publishes the channel and awaits createOffer.
MicResolved(c) ==
    /\ calls[c].loc = "mic"
    /\ LET withMic == [calls[c] EXCEPT !.micState = "live"]
       IN  IF IsStale(c)
           THEN CallStep(c, AbortAfterMic(withMic))
           ELSE /\ calls' = [calls EXCEPT ![c] =
                                [withMic EXCEPT !.pcState = "open", !.loc = "offer"]]
                /\ localRef' = c
                /\ peerRef' = c
                /\ dataChannel' = c
                /\ Outputs("other", << >>, FALSE)
                /\ UNCHANGED << remoteStream, startGeneration, routerVars, stops,
                                msgs, orderVars, sideVars >>

MicRejected(c) == Rejected(c, {"mic"}, "mic")

\* An await followed by the generation check: the stale branch releases pc
\* and mic and returns, the current branch moves on to the next await.
CheckedResume(c, from, to) ==
    /\ calls[c].loc = from
    /\ CallStep(c, IF IsStale(c) THEN AbortWithPeer(calls[c])
                   ELSE IF to = "returned" THEN Return(calls[c], "resolved")
                   ELSE [calls[c] EXCEPT !.loc = to])

OfferResolved(c) == CheckedResume(c, "offer", "setLocal")
SetLocalResolved(c) == CheckedResume(c, "setLocal", "fetch")

\* fetch resolved: resp.ok decides between reading the answer and reading
\* the error body; neither branch looks at the generation first.
FetchResolved(c, ok) ==
    /\ calls[c].loc = "fetch"
    /\ CallStep(c, [calls[c] EXCEPT !.loc = IF ok THEN "answer" ELSE "errorBody"])

\* resp.text().catch(() => '') settled: throw new Error('Realtime handshake failed')
HandshakeFailed(c) == Rejected(c, {"errorBody"}, "handshake")

AnswerResolved(c) == CheckedResume(c, "answer", "setRemote")
SetRemoteResolved(c) == CheckedResume(c, "setRemote", "returned")

\* createOffer, setLocalDescription, fetch, resp.text() or
\* setRemoteDescription rejects.
PeerAwaitRejected(c) ==
    Rejected(c, {"offer", "setLocal", "fetch", "answer", "setRemote"}, "negotiation")

\* ------------------------------------------------------- connection events
\* A connection that is not closed and whose remote description is being or
\* has been applied delivers events.
Negotiated(c) ==
    /\ calls[c].pcState = "open"
    /\ \/ calls[c].loc = "setRemote"
       \/ calls[c].loc = "returned" /\ calls[c].outcome = "resolved"

\* peer.addEventListener('track', ...): publishes event.streams[0] if any.
TrackEvent(c, hasStream) ==
    /\ Negotiated(c)
    /\ remoteStream' = IF hasStream THEN c ELSE remoteStream
    /\ Outputs("other", << >>, FALSE)
    /\ UNCHANGED << dataChannel, refVars, routerVars, calls, stops, msgs, orderVars, sideVars >>

\* dc.addEventListener('open', ...): sends the modern session.update.
DataChannelOpen(c) ==
    /\ Negotiated(c)
    /\ ~calls[c].dcOpen
    /\ calls' = [calls EXCEPT ![c].dcOpen = TRUE]
    /\ transcriptionConfigMode' = "modern"
    /\ Outputs("other", << "session.update" >>, FALSE)
    /\ UNCHANGED << publishedVars, refVars, transcripts, tableVars, stops, msgs,
                    orderVars, sideVars >>

\* ----------------------------------------------------------------- sendText
\* RTCDataChannel.send throws unless the channel is open.
ChannelOpen(c) == calls[c].pcState = "open" /\ calls[c].dcOpen

\* crypto.randomUUID(): an identifier that nothing in the provider's state
\* names.  Identifiers above UuidBase are the drawn ones; sendText gives each
\* a row of the hint table, so the rows count them.
UuidBase == 10
DrawnUuids == { k \in DOMAIN previousItemIdById : k > UuidBase }
NewUuid == UuidBase + Cardinality(DrawnUuids) + 1
\* Operations on the data channel in this session: messages handled and
\* texts that drew an identifier.
ChannelOps == msgs + Cardinality(DrawnUuids)

\* Texts a caller may pass: empty, white space, and a word with white space
\* around it.
TypedTexts == { << >>, << WS >>, << WS, 1, WS >> }

\* Mutant: the text is sent and no response is asked for.
sendTextSkipsResponse(text) ==
    LET trimmed == Trim(text)
        id == NewUuid
        previousItemId == latestCommittedInputItemId
        st == upsertTranscript(
                  Tables(transcripts, MapSet(previousItemIdById, id, previousItemId),
                         assistantPreferredSourceById),
                  Update(id, "user", "input_text", FALSE, << >>, TRUE, trimmed,
                         FALSE, previousItemId))
    IN  /\ IF trimmed = << >> \/ dataChannel = Null
           THEN /\ Outputs("other", << >>, FALSE)
                /\ UNCHANGED routerVars
           ELSE /\ Cardinality(DrawnUuids) < MaxTexts
                /\ ChannelOps < MaxMsgs
                /\ latestCommittedInputItemId' = id
                /\ transcripts' = st.t
                /\ previousItemIdById' = st.prev
                /\ assistantPreferredSourceById' = st.pref
                /\ IF ChannelOpen(dataChannel)
                   THEN Outputs("other",
                                << "conversation.item.create" >>, TRUE)
                   ELSE Outputs("other", << >>, FALSE)
                /\ UNCHANGED << assistantMessageIdByResponseId,
                                anchoredInputIdByResponseId,
                                pendingAssistantDeltasByResponseId,
                                transcriptionConfigMode >>
        /\ UNCHANGED << publishedVars, refVars, calls, stops, msgs, orderVars, sideVars >>

sendText(text) ==
    LET trimmed == Trim(text)
        id == NewUuid
        previousItemId == latestCommittedInputItemId
        st == upsertTranscript(
                  Tables(transcripts, MapSet(previousItemIdById, id, previousItemId),
                         assistantPreferredSourceById),
                  Update(id, "user", "input_text", FALSE, << >>, TRUE, trimmed,
                         FALSE, previousItemId))
    IN  /\ IF trimmed = << >> \/ dataChannel = Null
           THEN /\ Outputs("other", << >>, FALSE)
                /\ UNCHANGED routerVars
           ELSE /\ Cardinality(DrawnUuids) < MaxTexts
                /\ ChannelOps < MaxMsgs
                /\ latestCommittedInputItemId' = id
                /\ transcripts' = st.t
                /\ previousItemIdById' = st.prev
                /\ assistantPreferredSourceById' = st.pref
                /\ IF ChannelOpen(dataChannel)
                   THEN Outputs("other",
                                << "conversation.item.create", "response.create" >>, TRUE)
                   ELSE Outputs("other", << >>, FALSE)
                /\ UNCHANGED << assistantMessageIdByResponseId,
                                anchoredInputIdByResponseId,
                                pendingAssistantDeltasByResponseId,
                                transcriptionConfigMode >>
        /\ UNCHANGED << publishedVars, refVars, calls, stops, msgs, orderVars, sideVars >>

\* ------------------------------------------------ data-channel messages
\* The refs and state the message listener reads and writes, as one record:
\*   t transcripts, prev previousItemIdById, pref assistantPreferredSourceById,
\*   bind assistantMessageIdByResponseId, anchor anchoredInputIdByResponseId,
\*   latest latestCommittedInputItemId, pending
\*   pendingAssistantDeltasByResponseId, mode transcriptionConfigMode,
\*   sent what the handler sent on the channel.
Router ==
    [t |-> transcripts, prev |-> previousItemIdById,
     pref |-> assistantPreferredSourceById,
     bind |-> assistantMessageIdByResponseId,
     anchor |-> anchoredInputIdByResponseId,
     latest |-> latestCommittedInputItemId,
     pending |-> pendingAssistantDeltasByResponseId,
     mode |-> transcriptionConfigMode, sent |-> << >>]

\* upsertTranscript(update) applied to the router record
Upsert(R, update) ==
    LET st == upsertTranscript(Tables(R.t, R.prev, R.pref), update)
    IN  [R EXCEPT !.t = st.t, !.prev = st.prev, !.pref = st.pref]

\* typeof x === 'string' for a field that holds an id or Undef/Null
IsString(x) == x # Undef /\ x # Null

\* getAnchoredInputItemId(responseId): the pair of the router record after the
\* call and the value returned (an id or Null).
getAnchoredInputItemId(R, responseId) ==
    IF MapHas(R.anchor, responseId) THEN [R |-> R, value |-> R.anchor[responseId]]
    ELSE IF R.latest = Null THEN [R |-> R, value |-> Null]
    ELSE [R |-> [R EXCEPT !.anchor = MapSet(R.anchor, responseId, R.latest)],
          value |-> R.latest]

\* Mutant: the fallback leaves the mode modern.
OnErrorStaysModern(R, matchesFirst, matchesSecond) ==
    IF R.mode = "modern" /\ matchesFirst /\ matchesSecond
    THEN [R EXCEPT !.sent = << "session.update legacy" >>]
    ELSE R

\* type === 'error': one fallback to the legacy configuration while the mode
\* is modern and the message text matches both patterns.
OnError(R, matchesFirst, matchesSecond) ==
    IF R.mode = "modern" /\ matchesFirst /\ matchesSecond
    THEN [R EXCEPT !.mode = "legacy", !.sent = << "session.update legacy" >>]
    ELSE R

\* Mutant: a committed user turn becomes the anchor of every anchored response.
OnCommittedReanchors(R, itemId, prevField) ==
    LET previousItemId == IF IsString(prevField) THEN prevField ELSE Null
    IN  IF IsString(itemId)
        THEN Upsert([R EXCEPT !.latest = itemId,
                              !.anchor = [r \in DOMAIN R.anchor |-> itemId]],
                    Update(itemId, "user", "input_transcription", FALSE, << >>,
                           FALSE, << >>, FALSE, previousItemId))
        ELSE R

\* type === 'input_audio_buffer.committed'
OnCommitted(R, itemId, prevField) ==
    LET previousItemId == IF IsString(prevField) THEN prevField ELSE Null
    IN  IF IsString(itemId)
        THEN Upsert([R EXCEPT !.latest = itemId],
                    Update(itemId, "user", "input_transcription", FALSE, << >>,
                           FALSE, << >>, FALSE, previousItemId))
        ELSE R

\* Mutant: the inline text of a user item is appended to the entry.
OnItemCreatedAppends(R, itemId, role, hasText, text, prevField) ==
    LET previousItemId == IF IsString(prevField) THEN prevField ELSE Null
        R1 == [R EXCEPT !.prev = MapSet(R.prev, itemId, previousItemId)]
        R2 == IF role = "user"
              THEN LET R3 == [R1 EXCEPT !.latest = itemId]
                   IN  IF hasText
                       THEN Upsert(R3, Update(itemId, "user", "input_text", TRUE, text,
                                              FALSE, << >>, FALSE, previousItemId))
                       ELSE R3
              ELSE R1
    IN  IF IsString(itemId)
        THEN [R2 EXCEPT !.t = reorderTranscripts(R2.t, R2.prev)]
        ELSE R

\* type === 'conversation.item.created'; hasText says whether the item
\* carries an input_text content part.
OnItemCreated(R, itemId, role, hasText, text, prevField) ==
    LET previousItemId == IF IsString(prevField) THEN prevField ELSE Null
        R1 == [R EXCEPT !.prev = MapSet(R.prev, itemId, previousItemId)]
        R2 == IF role = "user"
              THEN LET R3 == [R1 EXCEPT !.latest = itemId]
                   IN  IF hasText
                       THEN Upsert(R3, Update(itemId, "user", "input_text", FALSE, << >>,
                                              TRUE, text, FALSE, previousItemId))
                       ELSE R3
              ELSE R1
    IN  IF IsString(itemId)
        THEN [R2 EXCEPT !.t = reorderTranscripts(R2.t, R2.prev)]
        ELSE R

\* previousItemId of a delta: the stored hint when the id has a row, else the
\* hint carried by the message, else the fallback (an anchor or Undef).
DeltaPreviousItemId(R, itemId, prevField, fallback) ==
    IF MapHas(R.prev, itemId)
    THEN (IF R.prev[itemId] = Undef THEN Null ELSE R.prev[itemId])
    ELSE IF IsString(prevField) THEN prevField
    ELSE fallback

\* type === 'conversation.item.input_audio_transcription.delta'
OnInputDelta(R, itemId, delta, prevField) ==
    IF IsString(itemId) /\ delta # << >>
    THEN LET R1 == IF R.latest = Null THEN [R EXCEPT !.latest = itemId] ELSE R
         IN  Upsert(R1, Update(itemId, "user", "input_transcription", TRUE, delta,
                               FALSE, << >>, FALSE,
                               DeltaPreviousItemId(R1, itemId, prevField, Undef)))
    ELSE R

\* type === 'conversation.item.input_audio_transcription.completed';
\* hasTranscript says whether msg.transcript is a string.
OnInputCompleted(R, itemId, hasTranscript, transcript, prevField) ==
    IF IsString(itemId) /\ hasTranscript
    THEN LET R1 == IF R.latest = Null THEN [R EXCEPT !.latest = itemId] ELSE R
         IN  Upsert(R1, Update(itemId, "user", "input_transcription", FALSE, << >>,
                               TRUE, transcript, TRUE,
                               DeltaPreviousItemId(R1, itemId, prevField, Undef)))
    ELSE R

\* The flush of the buffered deltas of a response: text wins over the audio
\* transcript, and the buffer is dropped.
FlushPending(R, responseId, itemId, previousItemId) ==
    IF MapHas(R.pending, responseId)
    THEN LET pending == R.pending[responseId]
             hint == IF IsString(previousItemId) THEN previousItemId ELSE Undef
             R1 == IF pending.text # << >>
                   THEN Upsert(R, Update(itemId, "assistant", "response_text", TRUE,
                                         pending.text, FALSE, << >>, FALSE, hint))
                   ELSE IF pending.audioTranscript # << >>
                   THEN Upsert(R, Update(itemId, "assistant", "response_audio_transcript",
                                         TRUE, pending.audioTranscript, FALSE, << >>,
                                         FALSE, hint))
                   ELSE R
         IN  [R1 EXCEPT !.pending = MapDelete(R1.pending, responseId)]
    ELSE R

\* Mutant: the anchor is preferred to the predecessor the message carries.
OnOutputItemAddedAnchorFirst(R, responseId, itemId, explicitPreviousItemId) ==
    IF IsString(responseId) /\ IsString(itemId)
    THEN LET R1 == [R EXCEPT !.bind = MapSet(R.bind, responseId, itemId)]
             got == getAnchoredInputItemId(R1, responseId)
             previousItemId == IF IsString(got.value)
                               THEN got.value ELSE explicitPreviousItemId
             R3 == IF IsString(previousItemId)
                   THEN LET R4 == [got.R EXCEPT
                                      !.prev = MapSet(got.R.prev, itemId, previousItemId)]
                        IN  [R4 EXCEPT !.t = reorderTranscripts(R4.t, R4.prev)]
                   ELSE got.R
         IN  FlushPending(R3, responseId, itemId, previousItemId)
    ELSE R

\* type === 'response.output_item.added'
OnOutputItemAdded(R, responseId, itemId, explicitPreviousItemId) ==
    IF IsString(responseId) /\ IsString(itemId)
    THEN LET R1 == [R EXCEPT !.bind = MapSet(R.bind, responseId, itemId)]
             R2 == IF ~MapHas(R1.anchor, responseId) /\ R1.latest # Null
                   THEN [R1 EXCEPT !.anchor = MapSet(R1.anchor, responseId, R1.latest)]
                   ELSE R1
             got == getAnchoredInputItemId(R2, responseId)
             previousItemId == IF IsString(explicitPreviousItemId)
                               THEN explicitPreviousItemId ELSE got.value
             R3 == IF IsString(previousItemId)
                   THEN LET R4 == [got.R EXCEPT
                                      !.prev = MapSet(got.R.prev, itemId, previousItemId)]
                        IN  [R4 EXCEPT !.t = reorderTranscripts(R4.t, R4.prev)]
                   ELSE got.R
         IN  FlushPending(R3, responseId, itemId, previousItemId)
    ELSE R

\* Mutant: a buffered delta is also displayed, under the response id.
BufferDeltaShowsEntry(R, source, responseId, delta) ==
    LET old == IF MapHas(R.pending, responseId) THEN R.pending[responseId]
               ELSE [audioTranscript |-> << >>, text |-> << >>]
        new == IF source = "response_text"
               THEN [old EXCEPT !.text = @ \o delta]
               ELSE [old EXCEPT !.audioTranscript = @ \o delta]
    IN  Upsert([R EXCEPT !.pending = MapSet(R.pending, responseId, new)],
               Update(responseId, "assistant", source, TRUE, delta, FALSE, << >>, FALSE, Undef))

\* pending.text += delta / pending.audioTranscript += delta
BufferDelta(R, source, responseId, delta) ==
    LET old == IF MapHas(R.pending, responseId) THEN R.pending[responseId]
               ELSE [audioTranscript |-> << >>, text |-> << >>]
        new == IF source = "response_text"
               THEN [old EXCEPT !.text = @ \o delta]
               ELSE [old EXCEPT !.audioTranscript = @ \o delta]
    IN  [R EXCEPT !.pending = MapSet(R.pending, responseId, new)]

\* The entry a delta of a response goes to: the bound entry, else the inline
\* item id, else Undef.
DeltaItemId(R, responseId, inlineItemId) ==
    IF IsString(responseId) /\ MapHas(R.bind, responseId)
    THEN R.bind[responseId]
    ELSE inlineItemId

\* type === 'response.audio_transcript.delta' (source response_audio_transcript)
\* and type === 'response.text.delta' (source response_text): the two handlers
\* differ in the source and in the buffer field only.
OnAssistantDelta(R, source, responseId, inlineItemId, delta, prevField) ==
    LET stableFromResponse == IsString(responseId) /\ MapHas(R.bind, responseId)
        itemId == DeltaItemId(R, responseId, inlineItemId)
    IN  IF delta = << >> THEN R
        ELSE IF ~IsString(itemId) /\ IsString(responseId)
        THEN BufferDelta(R, source, responseId, delta)
        ELSE IF IsString(itemId)
        THEN LET R1 == IF IsString(responseId) /\ ~stableFromResponse
                       THEN [R EXCEPT !.bind = MapSet(R.bind, responseId, itemId)]
                       ELSE R
                 got == IF IsString(responseId)
                        THEN getAnchoredInputItemId(R1, responseId)
                        ELSE [R |-> R1, value |-> Null]
                 fallback == IF got.value = Null THEN Undef ELSE got.value
             IN  Upsert(got.R, Update(itemId, "assistant", source, TRUE, delta,
                                      FALSE, << >>, FALSE,
                                      DeltaPreviousItemId(got.R, itemId, prevField,
                                                          fallback)))
        ELSE R

\* type === 'response.done'
OnResponseDone(R, responseId) ==
    LET assistantId == IF IsString(responseId) THEN MapGet(R.bind, responseId) ELSE Undef
        R1 == [R EXCEPT !.t = finalizeAssistantTranscript(R.t, R.prev, assistantId)]
    IN  IF IsString(responseId)
        THEN [R1 EXCEPT !.pending = MapDelete(R1.pending, responseId)]
        ELSE R1

\* ------------------------------------------------------ message delivery
\* Identifiers the server uses for items and responses.
ServerItemIds == {1, 2}
ResponseIds == {1, 2}
\* delta strings: white space and a word (the empty delta is DeltaNone)
Deltas == { << WS >>, << 1 >> }
DeltaNone == << >>

\* A message arrives on the open data channel of call c; newR is what its
\* handler leaves.  History: the kind of the message and the entry it aimed
\* at, or "other" when the handler changed nothing.
Deliver(c, kind, id, newR) ==
    /\ ChannelOpen(c)
    /\ ChannelOps < MaxMsgs
    /\ msgs' = msgs + 1
    /\ \E n \in {newR} :
          /\ transcripts' = n.t
          /\ previousItemIdById' = n.prev
          /\ assistantPreferredSourceById' = n.pref
          /\ assistantMessageIdByResponseId' = n.bind
          /\ anchoredInputIdByResponseId' = n.anchor
          /\ latestCommittedInputItemId' = n.latest
          /\ pendingAssistantDeltasByResponseId' = n.pending
          /\ transcriptionConfigMode' = n.mode
          /\ lastSent' = n.sent
          /\ lastOp' = IF n = Router /\ kind # "ignored"
                       THEN [kind |-> "other", id |-> Null]
                       ELSE [kind |-> kind, id |-> id]
    /\ lastReturn' = FALSE
    /\ UNCHANGED << publishedVars, refVars, calls, stops, orderVars, sideVars >>

\* Mutant: a message that is not handled drops the buffered deltas.
MsgIgnoredDropsBuffers(c) ==
    Deliver(c, "ignored", Null, [Router EXCEPT !.pending = EmptyMap])

\* JSON.parse throws, or msg.type is not a string, or names no handled kind:
\* the listener logs the message.
MsgIgnored(c) == Deliver(c, "ignored", Null, Router)

MsgError(c) ==
    \E matchesFirst, matchesSecond \in BOOLEAN :
        Deliver(c, "error", Null, OnError(Router, matchesFirst, matchesSecond))

\* item_id and previous_item_id of the committed messages
CommittedShapes ==
    { << 1, Undef >>, << 1, 2 >>, << 2, 1 >>, << Undef, Undef >> }

MsgCommitted(c) ==
    \E m \in CommittedShapes :
        Deliver(c, "input_audio_buffer.committed", m[1], OnCommitted(Router, m[1], m[2]))

\* item.id, item.role, whether the item has an input_text part, and
\* previous_item_id of the created messages; the server echoes the items
\* sendText created.
CreatedShapes ==
    { << 1, "user", TRUE, Undef >>, << 2, "user", TRUE, 1 >>,
      << 1, "user", FALSE, Undef >>, << 2, "assistant", FALSE, 1 >>,
      << Undef, "user", TRUE, Undef >> }
    \cup { << u, "user", FALSE, Undef >> : u \in DrawnUuids }

MsgItemCreated(c) ==
    \E m \in CreatedShapes :
        Deliver(c, "conversation.item.created", m[1],
                OnItemCreated(Router, m[1], m[2], m[3], << 2 >>, m[4]))

\* item_id, delta and previous_item_id of the input transcription deltas
InputDeltaShapes ==
    { << 1, << 1 >>, Undef >>, << 2, << 1 >>, 1 >>, << 1, DeltaNone, Undef >> }

MsgInputDelta(c) ==
    \E m \in InputDeltaShapes :
        Deliver(c, "input_audio_transcription.delta", m[1],
                OnInputDelta(Router, m[1], m[2], m[3]))

\* item_id, whether transcript is a string, transcript and previous_item_id
\* of the completed input transcriptions
InputCompletedShapes ==
    { << 1, TRUE, << 2 >>, Undef >>, << 1, TRUE, << >>, Undef >>,
      << 2, TRUE, << 2 >>, 1 >>, << 1, FALSE, << >>, Undef >> }

MsgInputCompleted(c) ==
    \E m \in InputCompletedShapes :
        Deliver(c, "input_audio_transcription.completed", m[1],
                OnInputCompleted(Router, m[1], m[2], m[3], m[4]))

\* response_id, item.id and previous_item_id of the output-item-added messages
OutputItemAddedShapes ==
    { << 1, 2, Undef >>, << 1, 1, Undef >>, << 2, 2, 1 >>, << 1, Undef, Undef >> }

MsgOutputItemAdded(c) ==
    \E m \in OutputItemAddedShapes :
        Deliver(c, "response.output_item.added", m[2],
                OnOutputItemAdded(Router, m[1], m[2], m[3]))

\* response_id, item_id, delta and previous_item_id of the assistant deltas:
\* of a response or of none, naming the item inline or not.
AssistantDeltaShapes ==
    { << 1, Undef, d, Undef >> : d \in Deltas }
    \cup { << Undef, 2, d, Undef >> : d \in Deltas }
    \cup { << 1, 1, << 1 >>, 2 >>, << Undef, Undef, << 1 >>, Undef >>,
           << 1, Undef, DeltaNone, Undef >> }

AssistantDelta(c, kind, source) ==
    \E m \in AssistantDeltaShapes :
        Deliver(c, kind, DeltaItemId(Router, m[1], m[2]),
                OnAssistantDelta(Router, source, m[1], m[2], m[3], m[4]))

MsgAudioTranscriptDelta(c) ==
    AssistantDelta(c, "response.audio_transcript.delta", "response_audio_transcript")

MsgTextDelta(c) ==
    AssistantDelta(c, "response.text.delta", "response_text")

MsgResponseDone(c) ==
    \E responseId \in ResponseIds \cup {Undef} :
        Deliver(c, "response.done",
                IF IsString(responseId) THEN MapGet(Router.bind, responseId) ELSE Undef,
                OnResponseDone(Router, responseId))

\* -------------------------------------------------------------- SpecRouter
\* One session: start() has resolved, a remote track has arrived and the data
\* channel has opened (the 'open' handler has sent the modern configuration).
EstablishedCall ==
    [NewCall(1) EXCEPT !.loc = "returned", !.outcome = "resolved",
                       !.micState = "live", !.pcState = "open", !.dcOpen = TRUE]

\* The provider with its first start() completed and the channel open.
EstablishedInit ==
    /\ remoteStream = 1
    /\ dataChannel = 1
    /\ transcripts = << >>
    /\ peerRef = 1
    /\ localRef = 1
    /\ startGeneration = 1
    /\ assistantMessageIdByResponseId = EmptyMap
    /\ assistantPreferredSourceById = EmptyMap
    /\ transcriptionConfigMode = "modern"
    /\ previousItemIdById = EmptyMap
    /\ anchoredInputIdByResponseId = EmptyMap
    /\ latestCommittedInputItemId = Null
    /\ pendingAssistantDeltasByResponseId = EmptyMap
    /\ calls = << EstablishedCall >>
    /\ stops = 0
    /\ msgs = 0
    /\ lastOp = [kind |-> "other", id |-> Null]
    /\ lastSent = << >>
    /\ lastReturn = FALSE

RouterInit == EstablishedInit /\ OrderIdle /\ SideIdle

RouterNext ==
    \/ \E c \in CallIds : MsgIgnored(c)
    \/ \E c \in CallIds : MsgError(c)
    \/ \E c \in CallIds : MsgCommitted(c)
    \/ \E c \in CallIds : MsgItemCreated(c)
    \/ \E c \in CallIds : MsgInputDelta(c)
    \/ \E c \in CallIds : MsgInputCompleted(c)
    \/ \E c \in CallIds : MsgOutputItemAdded(c)
    \/ \E c \in CallIds : MsgAudioTranscriptDelta(c)
    \/ \E c \in CallIds : MsgTextDelta(c)
    \/ \E c \in CallIds : MsgResponseDone(c)
    \/ \E text \in TypedTexts : sendText(text)

SpecRouter == RouterInit /\ [][RouterNext]_vars

\* ------------------------------------------------------------- SpecSession
\* ------------------------------------------------ updateTurnDelaySeconds
\* Arguments a caller may pass: every millisecond within DelaySpan of the
\* lower limit, values at and beyond both limits, and the numbers that are
\* not finite.
DelaySpan == 150
DelayArgs ==
    { Num(ms) : ms \in (200 - DelaySpan)..(200 + DelaySpan) }
        \cup { Num(0), Num(0 - 1000), Num(1270), Num(5949), Num(5950), Num(6049),
               Num(10000), NaN, PosInfinity, NegInfinity }

updateTurnDelaySeconds(seconds) ==
    LET normalized == normalizeTurnDelaySeconds(seconds)
    IN  /\ delayArg' = seconds
        /\ IF normalized = Null
           THEN /\ Outputs("other", << >>, FALSE)
                /\ UNCHANGED turnDelaySecondsRef
           ELSE /\ turnDelaySecondsRef' = normalized
                /\ IF dataChannel # Null /\ ChannelOpen(dataChannel)
                   THEN Outputs("other", << "session.update" >>, FALSE)
                   ELSE Outputs("other", << >>, FALSE)
        /\ UNCHANGED << publishedVars, refVars, routerVars, calls, stops, msgs,
                        orderVars, coordVars, micVars >>

\* The provider before a session and with one established, the stored delay
\* read from localStorage.
DelayInit ==
    /\ \/ ProviderInit
       \/ EstablishedInit
    /\ OrderIdle
    /\ \E stored \in StoredValues :
          turnDelaySecondsRef = getInitialTurnDelaySeconds(stored)
    /\ delayArg = NoArg
    /\ CoordIdle
    /\ MicIdle

DelayNext == \E seconds \in DelayArgs : updateTurnDelaySeconds(seconds)

SpecDelay == DelayInit /\ [][DelayNext]_vars

\* ------------------------------------------- provider with restart coordinator
\* One record per execution of the body of start().  Positions:
\*   token        await createRealtimeSession(...)
\*   mic          await navigator.mediaDevices.getUserMedia(...)
\*   negotiation  the awaits from pc.createOffer() to pc.setRemoteDescription();
\*                the code between them changes no state
\*   returned
\* A run acquires at most one microphone stream and one connection, so both
\* are named by the run: mic is the readyState of the track (none | live |
\* ended; track.stop() ends it), muted is the muted flag of the track while
\* it is live, pc is none | open | failed | closed.
\* monitored: the listeners and the liveness poll of attachLocalTrackMonitor
\* are attached to the run's track; mutedTimer: its debounce timer is pending.
\* by: 0 for a caller's start(), otherwise the delay of the restart timer
\* whose callback called start() and awaits it.  History: tornDown (cleanup()
\* ran after the run began).
MaxRuns == 2

NewRun(by) ==
    [loc |-> "token", by |-> by, mic |-> "none",
     muted |-> FALSE, monitored |-> FALSE, mutedTimer |-> FALSE, pc |-> "none",
     tornDown |-> FALSE]

RunIds == 1..Len(runs)

\* The state and refs of the provider as one record.
Coord ==
    [remoteStream |-> coordRemoteStream, dataChannel |-> coordDataChannel,
     peerRef |-> coordPeerRef, localRef |-> coordLocalRef,
     monitorRef |-> trackMonitorCleanupRef, opts |-> lastStartOptsRef,
     inProgress |-> startInProgressRef, restarting |-> restartingSessionRef,
     timerRef |-> restartTimerRef, timers |-> timers, runs |-> runs,
     wanted |-> sessionWanted]

\* Mutant: the doubled delay has no cap.
BackoffUncapped(delay) == delay * 2

\* Math.min(delay * 2, 2000)
Backoff(delay) == Min(delay * 2, 2000)

\* setTimeout returns a handle no pending timer has.
NewHandle(S) ==
    CHOOSE h \in 1..(Cardinality(DOMAIN S.timers) + 1) : h \notin DOMAIN S.timers

\* Mutant: a request made while a timer is pending leaves that timer pending.
scheduleWithoutClear(S, delay) ==
    IF ~S.opts THEN S
    ELSE [S EXCEPT !.timers = MapSet(S.timers, NewHandle(S), delay),
                   !.timerRef = NewHandle(S)]

\* scheduleSessionRestart(reason, delay)
scheduleSessionRestart(S, delay) ==
    IF ~S.opts THEN S
    ELSE LET cleared == IF S.timerRef # Null THEN MapDelete(S.timers, S.timerRef)
                        ELSE S.timers
         IN  [S EXCEPT !.timers = MapSet(cleared, NewHandle(S), delay),
                       !.timerRef = NewHandle(S)]

\* flushMutedTimer() of the monitor of run r.
flushMutedTimer(S, r) == [S EXCEPT !.runs[r].mutedTimer = FALSE]

\* trackMonitorCleanupRef.current?.(); trackMonitorCleanupRef.current = null
DisposeMonitor(S) ==
    IF S.monitorRef = Null THEN S
    ELSE [S EXCEPT !.runs[S.monitorRef].mutedTimer = FALSE,
                   !.runs[S.monitorRef].monitored = FALSE,
                   !.monitorRef = Null]

\* History: cleanup() has run after these runs began.
RECURSIVE MarkTornDown(_)
MarkTornDown(rs) ==
    IF rs = << >> THEN << >>
    ELSE << [Head(rs) EXCEPT !.tornDown = TRUE] >> \o MarkTornDown(Tail(rs))

\* cleanup() of the provider with the restart coordinator.
coordCleanup(S) ==
    LET closed == IF S.peerRef = Null THEN S
                  ELSE [S EXCEPT !.runs[S.peerRef].pc = "closed", !.peerRef = Null]
        stopped == IF closed.localRef = Null THEN closed
                   ELSE [closed EXCEPT !.runs[closed.localRef].mic = "ended",
                                       !.runs[closed.localRef].muted = FALSE,
                                       !.localRef = Null]
        disposed == DisposeMonitor(stopped)
        cleared == IF disposed.timerRef # Null
                   THEN [disposed EXCEPT !.timers = MapDelete(@, disposed.timerRef),
                                         !.timerRef = Null]
                   ELSE disposed
    IN  [cleared EXCEPT !.remoteStream = Null, !.dataChannel = Null,
                        !.runs = MarkTornDown(cleared.runs)]

\* attachLocalTrackMonitor(stream) for the stream of run r, which has an
\* audio track.
attachLocalTrackMonitor(S, r) ==
    [DisposeMonitor(S) EXCEPT !.runs[r].monitored = TRUE, !.monitorRef = r]

\* handleTrackLost(reason) of the monitor of run r, with the delay it asks for.
handleTrackLost(S, r, delay) == scheduleSessionRestart(flushMutedTimer(S, r), delay)

\* Mutant: start() runs its body whether or not another call is in progress.
StartIgnoredNever(S) == FALSE

\* if (startInProgressRef.current) return
StartIgnored(S) == S.inProgress

\* start(opts) up to its first await; callers pass options.
BeginStart(S, by) ==
    [S EXCEPT !.inProgress = TRUE, !.opts = TRUE, !.runs = Append(@, NewRun(by))]

\* Mutant: the timer callback does not ask again when its start() fails.
EndRestartNoRetry(S, r, failed) ==
    IF S.runs[r].by = 0 THEN S
    ELSE [S EXCEPT !.restarting = FALSE, !.runs[r].by = 0]

\* The end of a start() that the restart timer called: the catch and the
\* finally of the timer callback.
EndRestart(S, r, failed) ==
    IF S.runs[r].by = 0 THEN S
    ELSE [(IF failed THEN scheduleSessionRestart(S, Backoff(S.runs[r].by)) ELSE S)
             EXCEPT !.restarting = FALSE, !.runs[r].by = 0]

\* Mutant: the timer callback gives up when its start() fails.
FailStartGivesUp(S, r) ==
    [[coordCleanup(S) EXCEPT !.inProgress = FALSE, !.restarting = FALSE]
        EXCEPT !.runs[r].loc = "returned", !.runs[r].by = 0]

\* An await of run r rejects: catch { cleanup(); throw } finally { ... },
\* then the caller of start().
FailStart(S, r) ==
    EndRestart([[coordCleanup(S) EXCEPT !.inProgress = FALSE]
                   EXCEPT !.runs[r].loc = "returned"],
               r, TRUE)

\* The last await of run r resolves.
FinishStart(S, r) ==
    EndRestart([S EXCEPT !.inProgress = FALSE, !.runs[r].loc = "returned"], r, FALSE)

\* The new state of the provider after a step, and what the step was.
Install(S, kind) ==
    /\ coordRemoteStream' = S.remoteStream
    /\ coordDataChannel' = S.dataChannel
    /\ coordPeerRef' = S.peerRef
    /\ coordLocalRef' = S.localRef
    /\ trackMonitorCleanupRef' = S.monitorRef
    /\ lastStartOptsRef' = S.opts
    /\ startInProgressRef' = S.inProgress
    /\ restartingSessionRef' = S.restarting
    /\ restartTimerRef' = S.timerRef
    /\ timers' = S.timers
    /\ runs' = S.runs
    /\ coordOp' = kind
    /\ sessionWanted' = S.wanted
    /\ UNCHANGED << publishedVars, refVars, routerVars, envVars, orderVars, delayVars,
                    micVars >>

\* What a step that asked for a restart did to the timer.
Asked(S) ==
    IF S.opts /\ S.timerRef # Null THEN "replaced" ELSE "other"

\* start(opts) called by the application.
CoordStart ==
    IF StartIgnored(Coord)
    THEN Install([Coord EXCEPT !.wanted = TRUE], "start ignored")
    ELSE /\ Len(runs) < MaxRuns
         /\ Install([BeginStart(Coord, 0) EXCEPT !.wanted = TRUE], "other")

\* stop()
CoordStop == Install([coordCleanup(Coord) EXCEPT !.wanted = FALSE], "other")

RunTokenResolved(r) ==
    /\ runs[r].loc = "token"
    /\ Install([Coord EXCEPT !.runs[r].loc = "mic"], "other")

\* getUserMedia resolves: the code up to await pc.createOffer().
RunMicResolved(r) ==
    /\ runs[r].loc = "mic"
    /\ LET mic == [Coord EXCEPT !.runs[r].mic = "live", !.localRef = r]
           monitored == attachLocalTrackMonitor(mic, r)
       IN  Install([monitored EXCEPT !.runs[r].pc = "open", !.peerRef = r,
                                     !.dataChannel = r, !.runs[r].loc = "negotiation"],
                   "other")

RunNegotiated(r) ==
    /\ runs[r].loc = "negotiation"
    /\ Install(FinishStart(Coord, r), "other")

\* Any await of the run rejects, or the handshake answers with an error status.
RunRejected(r) ==
    /\ runs[r].loc # "returned"
    /\ Install(FailStart(Coord, r),
               IF runs[r].by = 0 THEN "start failed" ELSE "restart failed")

\* ------------------------------------------------ events of a run's objects
\* The microphone track ends (the device goes away); handleEnded.
TrackEnded(r) ==
    /\ runs[r].mic = "live"
    /\ LET S == [Coord EXCEPT !.runs[r].mic = "ended", !.runs[r].muted = FALSE]
       IN  IF runs[r].monitored
           THEN Install(handleTrackLost(S, r, 150), Asked(S))
           ELSE Install(S, "other")

\* The track becomes muted; handleMute.
TrackMute(r) ==
    /\ runs[r].mic = "live"
    /\ ~runs[r].muted
    /\ Install([Coord EXCEPT !.runs[r].muted = TRUE,
                             !.runs[r].mutedTimer = runs[r].monitored],
               "other")

\* Mutant: the unmute listener leaves the debounce timer pending.
handleUnmuteKeepsTimer(S, r) == S

\* handleUnmute of the monitor of run r.
handleUnmute(S, r) == flushMutedTimer(S, r)

\* The track becomes unmuted.
TrackUnmute(r) ==
    /\ runs[r].mic = "live"
    /\ runs[r].muted
    /\ LET S == [Coord EXCEPT !.runs[r].muted = FALSE]
       IN  Install(IF runs[r].monitored THEN handleUnmute(S, r) ELSE S,
                   IF runs[r].mutedTimer THEN "unmute" ELSE "other")

\* The debounce timer of the monitor of run r expires.
MuteTimeout(r) ==
    /\ runs[r].mutedTimer
    /\ LET S == flushMutedTimer(Coord, r)
       IN  IF runs[r].muted
           THEN Install(handleTrackLost(S, r, 400), Asked(S))
           ELSE Install(S, "other")

\* The liveness poll of the monitor of run r finds the track not live.
HealthPoll(r) ==
    /\ runs[r].monitored
    /\ runs[r].mic # "live"
    /\ Install(handleTrackLost(Coord, r, 400), Asked(Coord))

\* connectionstatechange of the connection of run r: to failed (the listener
\* asks for a restart in 400 ms), or to disconnected (in 900 ms), from which
\* the connection may come back.
ConnectionStateChange(r, state) ==
    /\ runs[r].pc = "open"
    /\ LET S == [Coord EXCEPT !.runs[r].pc = IF state = "failed" THEN "failed" ELSE @]
       IN  Install(scheduleSessionRestart(S, IF state = "failed" THEN 400 ELSE 900),
                   Asked(S))

\* 'removetrack' of the remote stream of run r, which the connection has
\* delivered once the last await of start() has resolved.
RemoteTrackRemoved(r) ==
    /\ runs[r].loc = "returned"
    /\ runs[r].pc = "open"
    /\ Install(scheduleSessionRestart(Coord, 600), Asked(Coord))

\* The stored microphone has an audio track whose readyState is 'live'.
StoredTrackLive(S) == S.localRef # Null /\ S.runs[S.localRef].mic = "live"

\* handleVisibility: 'visibilitychange' of the document.
VisibilityChange(visible) ==
    IF visible /\ ~(StoredTrackLive(Coord) /\ ~runs[coordLocalRef].muted)
    THEN Install(scheduleSessionRestart(Coord, 250), Asked(Coord))
    ELSE Install(Coord, "other")

\* handlePageShow: 'pageshow' of the window.
PageShow(persisted) ==
    IF persisted
    THEN Install(scheduleSessionRestart(Coord, 250), Asked(Coord))
    ELSE Install(Coord, "other")

\* handleFocus: 'focus' of the window.
WindowFocus ==
    IF StoredTrackLive(Coord)
    THEN Install(Coord, "other")
    ELSE Install(scheduleSessionRestart(Coord, 400), Asked(Coord))

\* The restart timer with handle h expires: the callback of setTimeout.
RestartTimerFires(h) ==
    /\ h \in DOMAIN timers
    /\ LET delay == timers[h]
           S == [Coord EXCEPT !.timers = MapDelete(@, h), !.timerRef = Null]
       IN  IF S.inProgress \/ S.restarting
           THEN Install(scheduleSessionRestart(S, Backoff(delay)), "deferred")
           ELSE /\ Len(runs) < MaxRuns
                /\ Install(BeginStart(coordCleanup([S EXCEPT !.restarting = TRUE]), delay),
                           "other")

RestartInit == ProviderInit /\ OrderIdle /\ SideIdle

RestartNext ==
    \/ CoordStart
    \/ CoordStop
    \/ \E r \in RunIds : RunTokenResolved(r)
    \/ \E r \in RunIds : RunMicResolved(r)
    \/ \E r \in RunIds : RunNegotiated(r)
    \/ \E r \in RunIds : RunRejected(r)
    \/ \E r \in RunIds : TrackEnded(r)
    \/ \E r \in RunIds : TrackMute(r)
    \/ \E r \in RunIds : TrackUnmute(r)
    \/ \E r \in RunIds : MuteTimeout(r)
    \/ \E r \in RunIds : HealthPoll(r)
    \/ \E r \in RunIds, state \in {"disconnected", "failed"} : ConnectionStateChange(r, state)
    \/ \E h \in DOMAIN timers : RestartTimerFires(h)
    \/ \E r \in RunIds : RemoteTrackRemoved(r)
    \/ \E visible \in BOOLEAN : VisibilityChange(visible)
    \/ \E persisted \in BOOLEAN : PageShow(persisted)
    \/ WindowFocus

SpecRestart == RestartInit /\ [][RestartNext]_vars

\* ------------------------------------------------------------ SpecRecover
\* The run of a start() that has resolved: the session is established.
EstablishedRun ==
    [NewRun(0) EXCEPT !.loc = "returned", !.mic = "live", !.monitored = TRUE,
                      !.pc = "open"]

\* The provider after the caller's start(opts) has resolved.
RecoverInit ==
    /\ ProviderInit
    /\ OrderIdle
    /\ DelayIdle
    /\ MicIdle
    /\ coordRemoteStream = Null
    /\ coordDataChannel = 1
    /\ coordPeerRef = 1
    /\ coordLocalRef = 1
    /\ trackMonitorCleanupRef = 1
    /\ lastStartOptsRef = TRUE
    /\ startInProgressRef = FALSE
    /\ restartingSessionRef = FALSE
    /\ restartTimerRef = Null
    /\ timers = EmptyMap
    /\ runs = << EstablishedRun >>
    /\ coordOp = "other"
    /\ sessionWanted = TRUE

\* What happens to an established session while the caller calls neither
\* start() nor stop().
RecoverNext ==
    \/ \E r \in RunIds : RunTokenResolved(r)
    \/ \E r \in RunIds : RunMicResolved(r)
    \/ \E r \in RunIds : RunNegotiated(r)
    \/ \E r \in RunIds : RunRejected(r)
    \/ \E r \in RunIds : TrackEnded(r)
    \/ \E r \in RunIds : TrackMute(r)
    \/ \E r \in RunIds : TrackUnmute(r)
    \/ \E r \in RunIds : MuteTimeout(r)
    \/ \E r \in RunIds : HealthPoll(r)
    \/ \E r \in RunIds, state \in {"disconnected", "failed"} : ConnectionStateChange(r, state)
    \/ \E h \in DOMAIN timers : RestartTimerFires(h)
    \/ \E r \in RunIds : RemoteTrackRemoved(r)
    \/ \E visible \in BOOLEAN : VisibilityChange(visible)
    \/ \E persisted \in BOOLEAN : PageShow(persisted)
    \/ WindowFocus

\* Timers fire, and every await of a start() settles.
RecoverFairness ==
    /\ WF_vars(\E h \in DOMAIN timers : RestartTimerFires(h))
    /\ WF_vars(\E r \in RunIds : \/ RunTokenResolved(r)
                                  \/ RunMicResolved(r)
                                  \/ RunNegotiated(r)
                                  \/ RunRejected(r))

SpecRecover == RecoverInit /\ [][RecoverNext]_vars /\ RecoverFairness

\* ---------------------------------------------------------------- SpecMic
\* The provider that restarts the microphone of an established session.
\* Streams are named by their position in micStreams: live is the readyState
\* of the audio track, muted its muted flag, monitored says the listeners of
\* attachTrackMonitors are attached to it, muteTimer that its debounce timer
\* is pending.  An execution of restartLocalStream is at loc "mic" (await
\* getUserMedia), "replace" (await sender.replaceTrack) or "returned";
\* previous is its local variable.  History: stopped (cleanup() ran while the
\* execution was suspended at await getUserMedia).
MaxMicRestarts == 2

NewStream == [live |-> TRUE, muted |-> FALSE, monitored |-> FALSE, muteTimer |-> FALSE]

NewMicRestart == [loc |-> "mic", previous |-> Null, stopped |-> FALSE]

\* The refs of the provider as one record.
Mic ==
    [peerRef |-> micPeerRef, localRef |-> micLocalRef,
     monitorRef |-> micMonitorCleanupRef, restarting |-> restartingMicRef,
     attempts |-> restartAttemptsRef, streams |-> micStreams,
     restarts |-> micRestarts]

\* The new state of the provider after a step.
MicInstall(S) ==
    /\ micPeerRef' = S.peerRef
    /\ micLocalRef' = S.localRef
    /\ micMonitorCleanupRef' = S.monitorRef
    /\ restartingMicRef' = S.restarting
    /\ restartAttemptsRef' = S.attempts
    /\ micStreams' = S.streams
    /\ micRestarts' = S.restarts
    /\ UNCHANGED << publishedVars, refVars, routerVars, envVars, orderVars, delayVars,
                    coordVars >>

\* clearMonitor()
clearMonitor(S) ==
    IF S.monitorRef = Null THEN S
    ELSE [S EXCEPT !.streams[S.monitorRef].monitored = FALSE,
                   !.streams[S.monitorRef].muteTimer = FALSE,
                   !.monitorRef = Null]

\* attachTrackMonitors(stream) for stream s, which has an audio track.
attachTrackMonitors(S, s) ==
    [clearMonitor(S) EXCEPT !.streams[s].monitored = TRUE, !.monitorRef = s]

\* track.stop() on the tracks of stream s (Null: no stream).
StopTracks(S, s) ==
    IF s = Null THEN S
    ELSE [S EXCEPT !.streams[s].live = FALSE, !.streams[s].muted = FALSE]

\* restartLocalStream(reason) up to await getUserMedia.  windowExpired says
\* whether more than eight seconds have passed since the window began.
restartLocalStream(S, windowExpired) ==
    IF S.peerRef = Null \/ S.restarting THEN S
    ELSE LET count == IF windowExpired THEN 0 ELSE S.attempts
         IN  IF count >= 3 THEN [S EXCEPT !.attempts = count]
             ELSE [S EXCEPT !.attempts = count + 1,
                            !.restarting = TRUE,
                            !.restarts = Append(@, NewMicRestart)]

\* scheduleRestart(reason) of a monitor: the stored restartLocalStream is
\* called; a call that passes the guards is a new execution.
ScheduleRestart(S) ==
    \E windowExpired \in BOOLEAN :
        LET T == restartLocalStream(S, windowExpired)
        IN  /\ Len(T.restarts) <= MaxMicRestarts
            /\ MicInstall(T)

\* cleanup() of the provider that restarts the microphone.
micCleanup(S) ==
    LET closed == [S EXCEPT !.peerRef = Null]
        stopped == [StopTracks(closed, closed.localRef) EXCEPT !.localRef = Null]
    IN  [clearMonitor(stopped) EXCEPT !.restarting = FALSE, !.attempts = 0]

\* History: cleanup() ran while these executions awaited getUserMedia.
RECURSIVE MarkStopped(_)
MarkStopped(rs) ==
    IF rs = << >> THEN << >>
    ELSE << [Head(rs) EXCEPT !.stopped = @ \/ Head(rs).loc = "mic"] >>
             \o MarkStopped(Tail(rs))

\* stop()
MicStop ==
    LET S == micCleanup(Mic)
    IN  MicInstall([S EXCEPT !.restarts = MarkStopped(S.restarts)])

\* getUserMedia of execution k resolves: the code up to await
\* sender.replaceTrack(track).  peerRef.current.getSenders() throws when
\* peerRef.current is null, which the catch logs; the sender exists because
\* start() added the microphone's track to the connection.
MicAcquired(k) ==
    /\ micRestarts[k].loc = "mic"
    /\ LET fresh == Len(micStreams) + 1
           got == [Mic EXCEPT !.streams = Append(@, NewStream)]
           monitored == attachTrackMonitors(got, fresh)
           stored == [monitored EXCEPT !.restarts[k].previous = monitored.localRef,
                                       !.localRef = fresh]
       IN  IF stored.peerRef = Null
           THEN MicInstall([stored EXCEPT !.restarting = FALSE,
                                          !.restarts[k].loc = "returned"])
           ELSE MicInstall([stored EXCEPT !.restarts[k].loc = "replace"])

\* sender.replaceTrack of execution k resolves: the rest of the try block and
\* the finally.
MicReplaced(k) ==
    /\ micRestarts[k].loc = "replace"
    /\ MicInstall([StopTracks(Mic, micRestarts[k].previous)
                      EXCEPT !.attempts = 0, !.restarting = FALSE,
                             !.restarts[k].loc = "returned"])

\* An await of execution k rejects: the catch and the finally.
MicRestartRejected(k) ==
    /\ micRestarts[k].loc # "returned"
    /\ MicInstall([Mic EXCEPT !.restarting = FALSE, !.restarts[k].loc = "returned"])

\* The track of stream s ends; handleEnded.
MicTrackEnded(s) ==
    /\ micStreams[s].live
    /\ LET S == [Mic EXCEPT !.streams[s].live = FALSE, !.streams[s].muted = FALSE]
       IN  IF micStreams[s].monitored THEN ScheduleRestart(S) ELSE MicInstall(S)

\* The track of stream s becomes muted; handleMute.
MicTrackMute(s) ==
    /\ micStreams[s].live
    /\ ~micStreams[s].muted
    /\ MicInstall([Mic EXCEPT !.streams[s].muted = TRUE,
                              !.streams[s].muteTimer = micStreams[s].monitored])

\* The track of stream s becomes unmuted; handleUnmute.
MicTrackUnmute(s) ==
    /\ micStreams[s].live
    /\ micStreams[s].muted
    /\ MicInstall([Mic EXCEPT !.streams[s].muted = FALSE,
                              !.streams[s].muteTimer = FALSE])

\* The debounce timer of the monitor of stream s expires.
MicMuteTimeout(s) ==
    /\ micStreams[s].muteTimer
    /\ LET S == [Mic EXCEPT !.streams[s].muteTimer = FALSE]
       IN  IF micStreams[s].muted THEN ScheduleRestart(S) ELSE MicInstall(S)

\* The provider after start() has resolved: one connection, one monitored
\* microphone stream.
MicInit ==
    /\ ProviderInit
    /\ OrderIdle
    /\ DelayIdle
    /\ CoordIdle
    /\ micPeerRef = 1
    /\ micLocalRef = 1
    /\ micMonitorCleanupRef = 1
    /\ restartingMicRef = FALSE
    /\ restartAttemptsRef = 0
    /\ micStreams = << [NewStream EXCEPT !.monitored = TRUE] >>
    /\ micRestarts = << >>

MicNext ==
    \/ MicStop
    \/ \E k \in 1..Len(micRestarts) : MicAcquired(k)
    \/ \E k \in 1..Len(micRestarts) : MicReplaced(k)
    \/ \E k \in 1..Len(micRestarts) : MicRestartRejected(k)
    \/ \E s \in 1..Len(micStreams) : MicTrackEnded(s)
    \/ \E s \in 1..Len(micStreams) : MicTrackMute(s)
    \/ \E s \in 1..Len(micStreams) : MicTrackUnmute(s)
    \/ \E s \in 1..Len(micStreams) : MicMuteTimeout(s)

SpecMic == MicInit /\ [][MicNext]_vars

SessionInit == ProviderInit /\ OrderIdle /\ SideIdle

SessionNext ==
    \/ Start
    \/ Stop
    \/ \E c \in CallIds : TokenResolved(c)
    \/ \E c \in CallIds : TokenRejected(c)
    \/ \E c \in CallIds : MicResolved(c)
    \/ \E c \in CallIds : MicRejected(c)
    \/ \E c \in CallIds : OfferResolved(c)
    \/ \E c \in CallIds : SetLocalResolved(c)
    \/ \E c \in CallIds, ok \in BOOLEAN : FetchResolved(c, ok)
    \/ \E c \in CallIds : HandshakeFailed(c)
    \/ \E c \in CallIds : AnswerResolved(c)
    \/ \E c \in CallIds : SetRemoteResolved(c)
    \/ \E c \in CallIds : PeerAwaitRejected(c)
    \/ \E c \in CallIds, hasStream \in BOOLEAN : TrackEvent(c, hasStream)
    \/ \E c \in CallIds : DataChannelOpen(c)
    \/ \E text \in TypedTexts : sendText(text)

SpecSession == SessionInit /\ [][SessionNext]_vars

\* ------------------------------------------------- claims on start()/stop()
PcOpen(c) == calls[c].pcState = "open"
MicLive(c) == calls[c].micState = "live"
Returned(c) == calls[c].loc = "returned"
\* Nothing of call c is in use: its connection and tracks are released and
\* neither the refs nor the published state name it.
Released(c) ==
    /\ ~PcOpen(c)
    /\ ~MicLive(c)
    /\ peerRef # c
    /\ localRef # c
    /\ dataChannel # c
    /\ remoteStream # c

\* C1: when a second start() is called while the first is suspended at an
\* await, then once both have returned (and the second is still the current
\* generation) everything the first call created is stopped or closed, every
\* open peer connection and every live microphone stream is the second
\* call's, and a second call that resolved holds exactly one live session.
C1_SecondStartWins ==
    \A c \in CallIds :
        ( /\ c + 1 \in CallIds
          /\ calls[c].supersededBy = "start"
          /\ Returned(c)
          /\ Returned(c + 1)
          /\ ~IsStale(c + 1) )
        => /\ Released(c)
           /\ \A d \in CallIds : (PcOpen(d) \/ MicLive(d)) => d = c + 1
           /\ calls[c + 1].outcome = "resolved"
                 => /\ PcOpen(c + 1) /\ MicLive(c + 1)
                    /\ peerRef = c + 1 /\ localRef = c + 1

\* Two calls, the first superseded by the second while it awaited the token
\* call or the microphone: it acquired a microphone after that and stopped it.
C1_Witness ==
    /\ Len(calls) = 2
    /\ stops = 0
    /\ calls[1].supersededBy = "start"
    /\ Returned(1)
    /\ calls[1].micState = "stopped"
    /\ calls[1].pcState = "none"
    /\ Returned(2)
    /\ calls[2].outcome = "resolved"
    /\ PcOpen(2)
    /\ MicLive(2)

\* C2: a start() that stop() superseded at an await has, once it returned,
\* no open peer connection and no live microphone track; and as long as no
\* later start() was called nothing at all is open or live and the published
\* data channel and remote stream are null.
C2_StopIsFinal ==
    \A c \in CallIds :
        (calls[c].supersededBy = "stop" /\ Returned(c))
        => /\ Released(c)
           /\ c = Len(calls)
                 => /\ \A d \in CallIds : ~PcOpen(d) /\ ~MicLive(d)
                    /\ dataChannel = Null
                    /\ remoteStream = Null
                    /\ peerRef = Null
                    /\ localRef = Null

\* stop() came while the call awaited the token call or the microphone; the
\* call then acquired the microphone, found itself superseded and returned.
C2_Witness ==
    /\ Len(calls) = 1
    /\ calls[1].supersededBy = "stop"
    /\ Returned(1)
    /\ calls[1].micState = "stopped"
    /\ calls[1].pcState = "none"

\* C3 (as claimed): a start() superseded while it awaited the token call does
\* nothing more when it resumes; in particular it never calls getUserMedia.
C3_NoStaleMicRequest ==
    \A c \in CallIds : ~calls[c].staleMicRequest

\* C4: when an await of a start() that is still current rejects (the token
\* call, the microphone, the handshake status, or another step of the
\* negotiation), the call ends rejected, and by then its peer connection is
\* closed and its microphone tracks are stopped.
C4_FailureReleases ==
    \A c \in CallIds :
        calls[c].failedAt # "none"
        => /\ Returned(c)
           /\ calls[c].outcome = "rejected"
           /\ ~PcOpen(c)
           /\ ~MicLive(c)

\* The handshake returned a non-success status to a current call that had a
\* connection and a microphone.
C4_Witness ==
    \E c \in CallIds :
        /\ calls[c].failedAt = "handshake"
        /\ calls[c].outcome = "rejected"
        /\ calls[c].pcState = "closed"
        /\ calls[c].micState = "stopped"

\* C5 (as claimed): the published data channel is non-null only once that
\* channel has opened, and the published remote stream is non-null only if
\* it arrived on the current session's connection.
C5_PublishedOnlyWhenReady ==
    /\ dataChannel # Null => calls[dataChannel].dcOpen
    /\ remoteStream # Null => (remoteStream = peerRef /\ PcOpen(remoteStream))

\* No session, no start() in progress, nothing published, nothing recorded.
SessionIdle ==
    /\ peerRef = Null
    /\ localRef = Null
    /\ dataChannel = Null
    /\ remoteStream = Null
    /\ transcripts = << >>
    /\ assistantMessageIdByResponseId = EmptyMap
    /\ assistantPreferredSourceById = EmptyMap
    /\ previousItemIdById = EmptyMap
    /\ anchoredInputIdByResponseId = EmptyMap
    /\ latestCommittedInputItemId = Null
    /\ pendingAssistantDeltasByResponseId = EmptyMap
    /\ \A c \in CallIds : ~PcOpen(c) /\ ~MicLive(c) /\ (Returned(c) \/ IsStale(c))

\* C6: stop() leaves the session idle whatever the state it is called in, and
\* called on an idle session (in particular right after another stop()) it
\* changes nothing but the generation counter.
C6_StopIsSafe ==
    [][Stop => /\ SessionIdle'
               /\ (SessionIdle \/ lastOp.kind \in {"stop", "stop again"})
                     => UNCHANGED << publishedVars, peerRef, localRef, routerVars, calls >>
      ]_vars

\* stop() was called twice in a row after a session had been torn down.
C6_Witness ==
    /\ lastOp.kind = "stop again"
    /\ \E c \in CallIds : calls[c].pcState = "closed"
    /\ SessionIdle

\* ------------------------------------------------ claims on the display order
\* The hint chain that starts at from reaches to in at most k steps.
RECURSIVE Reaches(_, _, _, _)
Reaches(m, from, to, k) ==
    IF k = 0 \/ ~MapHas(m, from) THEN FALSE
    ELSE m[from] = to \/ Reaches(m, m[from], to, k - 1)

\* No entry of the list is its own predecessor, directly or through others.
AcyclicHints ==
    \A i \in 1..Len(oList) : ~Reaches(oHints, oList[i].id, oList[i].id, Len(oList))

\* The entries that arrived as A (root), C (predecessor B), B (predecessor A),
\* with A = 1, B = 2, C = 3.
ArrivedACB ==
    /\ IdsOf(oList) = << 1, 3, 2 >>
    /\ oHints = (1 :> Null) @@ (3 :> 2) @@ (2 :> 1)

\* C7 (as claimed): for every arrival order of entries whose hints are
\* acyclic, every entry whose hinted predecessor is in the list is displayed
\* after that predecessor; and A, C, B are displayed as A, B, C.
C7_PredecessorFirst ==
    (oPhase >= 1 /\ AcyclicHints)
    => /\ \A i \in 1..Len(oList) :
            LET id == oList[i].id
            IN  (MapHas(oHints, id) /\ FindIndex(oList, oHints[id]) # 0)
                => FindIndex(oFirst.list, oHints[id]) < FindIndex(oFirst.list, id)
       /\ ArrivedACB => IdsOf(oFirst.list) = << 1, 2, 3 >>

\* C8: applying the function to its own output with the same hint table gives
\* the same sequence of identifiers, and returns the array it was given.
C8_Idempotent ==
    oPhase = 2 => /\ IdsOf(oSecond.list) = IdsOf(oFirst.list)
                  /\ oSecond.same

\* The first application reordered three entries; the second was applied to
\* what it returned.
C8_Witness ==
    /\ oPhase = 2
    /\ Len(oList) = 3
    /\ ~oFirst.same
    /\ IdsOf(oFirst.list) # IdsOf(oList)
    /\ oSecond.same

\* ------------------------------------------------ claims on the transcript
\* C9: within one session no message and no sendText call turns a final
\* entry back to streaming: an entry that is final is still in the transcript
\* and still final after every step.
C9_FinalStaysFinal ==
    [][\A i \in 1..Len(transcripts) :
          transcripts[i].status = "final"
          => \E j \in 1..Len(transcripts') :
                /\ transcripts'[j].id = transcripts[i].id
                /\ transcripts'[j].status = "final"
      ]_vars

\* A completed input transcription made entry 1 final, and a transcription
\* delta for entry 1 arrived after it and was appended.
C9_Witness ==
    /\ lastOp = [kind |-> "input_audio_transcription.delta", id |-> 1]
    /\ Len(transcripts) = 1
    /\ transcripts[1].id = 1
    /\ transcripts[1].status = "final"
    /\ transcripts[1].text = << 2, 1 >>

\* The entries of a transcript, as a set.
Entries(t) == { t[i] : i \in 1..Len(t) }

\* A response-done message with this response_id (or none, Undef) is handled.
DoneStep(responseId) ==
    \E c \in CallIds :
        Deliver(c, "response.done",
                IF IsString(responseId) THEN MapGet(Router.bind, responseId) ELSE Undef,
                OnResponseDone(Router, responseId))

\* The entry bound to the response, as an index of the transcript: 0 when the
\* response has no binding or the bound entry is not in the transcript.
BoundIndex(responseId) ==
    IF IsString(responseId) /\ MapHas(assistantMessageIdByResponseId, responseId)
    THEN FindIndex(transcripts, assistantMessageIdByResponseId[responseId])
    ELSE 0

\* The step marks entry idx final and changes no other entry.
MarksOnly(idx) ==
    /\ Len(transcripts') = Len(transcripts)
    /\ Entries(transcripts') =
          (Entries(transcripts) \ {transcripts[idx]})
              \cup {[transcripts[idx] EXCEPT !.status = "final"]}

\* C10 (as claimed): response-done marks only the entry bound to its response
\* identifier as final; when the response has no bound entry, or the bound
\* entry is not in the transcript or is already final, every entry is
\* unchanged.
C10_DoneMarksBoundOnly ==
    [][\A responseId \in ResponseIds \cup {Undef} :
          DoneStep(responseId)
          => LET idx == BoundIndex(responseId)
             IN  IF idx # 0 /\ transcripts[idx].status # "final"
                 THEN MarksOnly(idx)
                 ELSE transcripts' = transcripts
      ]_vars

\* The last assistant entry that is still streaming (0 when there is none).
LastOpenAssistant ==
    LET open == { i \in 1..Len(transcripts) :
                     /\ transcripts[i].role = "assistant"
                     /\ transcripts[i].status = "streaming" }
    IN  IF open = {} THEN 0 ELSE CHOOSE i \in open : \A j \in open : j <= i

\* C10 (amended): response-done marks the entry bound to its response
\* identifier as final and changes no other entry; when the bound entry is
\* not in the transcript or is already final, every entry is unchanged; when
\* the response has no binding (or the message names no response), the last
\* assistant entry that is still streaming, if there is one, is marked final
\* and no other entry changes.
C10_DoneMarksBoundOrLastOpen ==
    [][\A responseId \in ResponseIds \cup {Undef} :
          DoneStep(responseId)
          => LET bound == IsString(responseId)
                          /\ MapHas(assistantMessageIdByResponseId, responseId)
                 idx == IF bound THEN BoundIndex(responseId) ELSE LastOpenAssistant
             IN  IF idx # 0 /\ transcripts[idx].status # "final"
                 THEN MarksOnly(idx)
                 ELSE transcripts' = transcripts
      ]_vars

\* A text delta that named its item inline and no response created an
\* assistant entry; a response-done for a response with no binding made it
\* final.
C10_Witness ==
    /\ lastOp = [kind |-> "response.done", id |-> Undef]
    /\ msgs = 2
    /\ assistantMessageIdByResponseId = EmptyMap
    /\ Len(transcripts) = 1
    /\ transcripts[1].role = "assistant"
    /\ transcripts[1].status = "final"

\* ------------------------------------------------ claims on buffered deltas
\* s occurs in t as a run of consecutive characters.
IsInfix(s, t) ==
    \E i \in 0..(Len(t) - Len(s)) : SubSeq(t, i + 1, i + Len(s)) = s

\* The step binds the response to an entry while deltas are buffered for it.
BindsBuffered(responseId) ==
    /\ ~MapHas(assistantMessageIdByResponseId, responseId)
    /\ MapHas(pendingAssistantDeltasByResponseId, responseId)
    /\ MapHas(assistantMessageIdByResponseId', responseId)

\* C11 (as claimed): once the binding of a response is established, the bound
\* entry's text contains the deltas that were buffered for the response, in
\* arrival order: none is lost.  Stated for the stream the entry shows, on the
\* step that establishes the binding.
C11_BufferedDeltasKept ==
    [][\A responseId \in ResponseIds :
          BindsBuffered(responseId)
          => LET id == assistantMessageIdByResponseId'[responseId]
                 idx == FindIndex(transcripts', id)
                 buffered == pendingAssistantDeltasByResponseId[responseId]
             IN  /\ idx # 0
                 /\ IF transcripts'[idx].source = "response_text"
                    THEN IsInfix(buffered.text, transcripts'[idx].text)
                    ELSE IsInfix(buffered.audioTranscript, transcripts'[idx].text)
      ]_vars

\* ------------------------------------------------ claims on the two streams
\* The entry with this id, in a transcript that has it.
EntryOf(t, id) == t[FindIndex(t, id)]

\* C12 (as claimed): a text delta for an assistant entry that shows the audio
\* transcript makes the text stream its source and the delta its whole text;
\* and an audio-transcript delta changes neither the text nor the source of
\* an assistant entry that shows the text stream.
C12_TextStreamWins ==
    [][/\ \A i \in 1..Len(transcripts) :
            ( /\ transcripts[i].role = "assistant"
              /\ transcripts[i].source = "response_audio_transcript"
              /\ lastOp' = [kind |-> "response.text.delta", id |-> transcripts[i].id] )
            => /\ EntryOf(transcripts', transcripts[i].id).source = "response_text"
               /\ EntryOf(transcripts', transcripts[i].id).text \in Deltas
       /\ (\E c \in CallIds : MsgAudioTranscriptDelta(c))
            => \A i \in 1..Len(transcripts) :
                  ( /\ transcripts[i].role = "assistant"
                    /\ transcripts[i].source = "response_text" )
                  => /\ FindIndex(transcripts', transcripts[i].id) # 0
                     /\ EntryOf(transcripts', transcripts[i].id) = transcripts[i]
      ]_vars

\* -------------------------------------------------- claims on the turn delay
\* C13: the normalized delay of a finite number is a whole number of tenths
\* of a second between 0.2 and 6, no further than 0.05 from the number
\* clamped to that range (0 gives 0.2, 10 gives 6.0, 1.27 gives 1.3), and
\* updateTurnDelaySeconds stores it; given a number that is not finite,
\* updateTurnDelaySeconds leaves the stored delay as it was and sends nothing.
C13_DelayNormalized ==
    [][\A seconds \in DelayArgs :
          updateTurnDelaySeconds(seconds)
          => IF seconds.finite
             THEN LET clamped == Min(6000, Max(200, seconds.ms))
                      n == turnDelaySecondsRef'
                  IN  /\ n \in 200..6000
                      /\ n % 100 = 0
                      /\ n - clamped \in (0 - 50)..50
                      /\ seconds.ms = 0 => n = 200
                      /\ seconds.ms = 10000 => n = 6000
                      /\ seconds.ms = 1270 => n = 1300
             ELSE /\ turnDelaySecondsRef' = turnDelaySecondsRef
                  /\ lastSent' = << >>
      ]_vars
\* A delay of 1.27 was stored as 1.3 and sent, and a NaN was ignored
\* afterwards.
C13_Witness ==
    /\ delayArg = NaN
    /\ turnDelaySecondsRef = 1300
    /\ dataChannel # Null
    /\ lastSent = << >>

\* ------------------------------------------- claims on the microphone monitor
\* C14: once a muted track is unmuted no debounce timer of its monitor is
\* pending, so the mute asks for no restart; and the expiry of a debounce
\* timer asks for a restart only when the track is muted at that moment.
C14_MuteDebounced ==
    [][\A r \in RunIds :
          /\ (runs[r].muted /\ ~runs'[r].muted) => ~runs'[r].mutedTimer
          /\ (MuteTimeout(r) /\ << timers, restartTimerRef >>' # << timers, restartTimerRef >>)
                => runs[r].muted
      ]_vars
\* A mute was followed by an unmute while the debounce timer was pending, and
\* no restart timer is pending.
C14_Witness ==
    /\ coordOp = "unmute"
    /\ timers = EmptyMap
    /\ \E r \in RunIds : runs[r].monitored /\ ~runs[r].muted /\ ~runs[r].mutedTimer

\* ------------------------------------------ claims on the restart coordinator
\* C15: at most one restart timer is pending, and it is the one
\* restartTimerRef names.
C15_OneRestartTimer ==
    /\ Cardinality(DOMAIN timers) <= 1
    /\ DOMAIN timers = IF restartTimerRef = Null THEN {} ELSE {restartTimerRef}
\* A restart was asked for while a timer was pending.
C15_Witness ==
    /\ coordOp = "replaced"
    /\ Cardinality(DOMAIN timers) = 1

\* C16: a restart timer that fires while start() is in progress or while a
\* restart is executing tears nothing down and starts nothing, and leaves
\* one timer pending, whose delay is min(2 * delay, 2000).
C16_BusyFiringDefers ==
    [][\A h \in DOMAIN timers :
          ( /\ RestartTimerFires(h)
            /\ startInProgressRef \/ restartingSessionRef )
          => /\ runs' = runs
             /\ UNCHANGED << coordRemoteStream, coordDataChannel, coordPeerRef,
                             coordLocalRef, trackMonitorCleanupRef,
                             startInProgressRef, restartingSessionRef >>
             /\ restartTimerRef' # Null
             /\ timers' = MapSet(EmptyMap, restartTimerRef',
                                 IF 2 * timers[h] < 2000 THEN 2 * timers[h] ELSE 2000)
      ]_vars
\* A firing was put off at a delay whose double is over the cap.
C16_Witness ==
    /\ coordOp = "deferred"
    /\ restartTimerRef # Null
    /\ timers[restartTimerRef] = 2000
    /\ startInProgressRef

\* C17: at most one execution of the body of start() is between its first
\* statement and its return.
C17_OneStartAtATime ==
    Cardinality({ r \in RunIds : runs[r].loc # "returned" }) <= 1
\* A start() was called while another was suspended, and was ignored.
C17_Witness ==
    /\ coordOp = "start ignored"
    /\ \E r \in RunIds : runs[r].loc # "returned"

\* C18: when an await of a start() that the restart timer called rejects,
\* the rejection stays in the timer callback: afterwards
\* restartingSessionRef is false and a restart timer is pending whose delay
\* is min(2 * delay, 2000).
C18_RestartFailureRetries ==
    [][\A r \in RunIds :
          (RunRejected(r) /\ runs[r].by # 0)
          => /\ coordOp' # "start failed"
             /\ ~restartingSessionRef'
             /\ ~startInProgressRef'
             /\ restartTimerRef' # Null
             /\ timers' = MapSet(EmptyMap, restartTimerRef',
                                 IF 2 * runs[r].by < 2000 THEN 2 * runs[r].by ELSE 2000)
      ]_vars
\* The start() of a restart failed after it had acquired the microphone.
C18_Witness ==
    /\ coordOp = "restart failed"
    /\ \E r \in RunIds : r > 1 /\ runs[r].loc = "returned" /\ runs[r].mic = "ended"
    /\ timers # EmptyMap

\* C19 (as claimed): nothing of the monitor of a session that cleanup() has
\* torn down is attached or pending.
C19_NoMonitorAfterTeardown ==
    \A r \in RunIds :
        runs[r].tornDown => ~runs[r].monitored /\ ~runs[r].mutedTimer

\* ------------------------------------------------ claims on ignored messages
\* C20: a message that cannot be parsed, or whose kind is not handled,
\* leaves the transcript, every table of the router, the latest-committed
\* pointer, the configuration mode and the published state as they were and
\* sends nothing; the handlers read nothing else, so the messages after it
\* are handled as if it had not arrived.
C20_IgnoredChangesNothing ==
    [][\A c \in CallIds :
          MsgIgnored(c)
          => /\ UNCHANGED << transcripts, previousItemIdById,
                             assistantMessageIdByResponseId,
                             assistantPreferredSourceById,
                             anchoredInputIdByResponseId,
                             pendingAssistantDeltasByResponseId,
                             latestCommittedInputItemId, transcriptionConfigMode,
                             publishedVars, refVars, calls >>
             /\ lastSent' = << >>
      ]_vars
\* A message was ignored while an entry was displayed and deltas were
\* buffered.
C20_Witness ==
    /\ lastOp.kind = "ignored"
    /\ transcripts # << >>
    /\ pendingAssistantDeltasByResponseId # EmptyMap

\* ------------------------------------------------ claims on the entry list
\* C21: no two entries of the transcript have the same identifier.
C21_UniqueIds ==
    \A i, j \in 1..Len(transcripts) :
        i # j => transcripts[i].id # transcripts[j].id
\* Two entries are displayed and one of them has received two deltas.
C21_Witness ==
    /\ Len(transcripts) = 2
    /\ \E i \in 1..2 : Len(transcripts[i].text) = 2

\* ------------------------------------------------ claims on the fallback
\* C22: a message sends the legacy configuration only while the mode is
\* modern, and leaves the mode legacy; once the mode is legacy no message
\* makes it modern again and no error signal sends anything.
C22_OneFallback ==
    [][/\ lastSent' = << "session.update legacy" >>
            => transcriptionConfigMode = "modern" /\ transcriptionConfigMode' = "legacy"
       /\ transcriptionConfigMode = "legacy"
            => /\ transcriptionConfigMode' = "legacy"
               /\ (\E c \in CallIds : MsgError(c)) => lastSent' = << >>
      ]_vars
\* The fallback has happened and a message has been handled after it.
C22_Witness ==
    /\ transcriptionConfigMode = "legacy"
    /\ lastSent = << >>
    /\ lastOp.kind = "other"
    /\ msgs = 2
    /\ transcripts = << >>

\* ------------------------------------------------ claims on the roots
\* C23: an entry without a row in the hint table, an entry with a null hint
\* and an entry whose hint names no entry of the list are emitted in their
\* relative arrival order.
C23_RootsInArrivalOrder ==
    oPhase >= 1 =>
        LET ids == IdsOf(oList)
            out == IdsOf(oFirst.list)
            RootKind(id) ==
                LET prev == PrevById(oHints, id)
                IN  \/ prev = Undef
                    \/ prev = Null
                    \/ ~(\E k \in 1..Len(ids) : ids[k] = prev)
        IN  \A i, j \in 1..Len(ids) :
                (i < j /\ RootKind(ids[i]) /\ RootKind(ids[j]))
                    => OriginalIndex(out, ids[i]) < OriginalIndex(out, ids[j])

\* C24: when every entry has a row in the hint table, the entries the
\* traversal from the roots does not reach come after every reached entry and
\* keep their arrival order among themselves.
C24_UnreachedKeepArrivalOrder ==
    (oPhase >= 1 /\ Len(oList) > 1 /\ DOMAIN oHints = 1..Len(oList)) =>
        LET ids == IdsOf(oList)
            out == IdsOf(oFirst.list)
            reached == VisitEach(Roots(ids, oHints), [visited |-> {}, out |-> << >>],
                                 ids, oHints).visited
        IN  \A i, j \in 1..Len(ids) :
                /\ (ids[i] \in reached /\ ids[j] \notin reached)
                       => OriginalIndex(out, ids[i]) < OriginalIndex(out, ids[j])
                /\ (i < j /\ ids[i] \notin reached /\ ids[j] \notin reached)
                       => OriginalIndex(out, ids[i]) < OriginalIndex(out, ids[j])

\* C25: when every entry had a hint on arrival and is reached from the roots, two
\* entries with the same predecessor, and two roots, are displayed after a
\* hint update in the order in which they first arrived.
C25_TieBreakByFirstArrival ==
    oPhase = 3 =>
        LET ids == IdsOf(oList)
            out == IdsOf(oRehinted.t)
            hints == oRehinted.prev
            IsRoot(id) == \A k \in 1..Len(ids) : ids[k] # PrevById(hints, id)
            reached == VisitEach(Roots(out, hints), [visited |-> {}, out |-> << >>],
                                 out, hints).visited
        IN  (DOMAIN oHints = 1..Len(ids) /\ reached = 1..Len(ids)) =>
                \A i, j \in 1..Len(ids) :
                    /\ i < j
                    /\ \/ IsRoot(ids[i]) /\ IsRoot(ids[j])
                       \/ PrevById(hints, ids[i]) = PrevById(hints, ids[j])
                    => OriginalIndex(out, ids[i]) < OriginalIndex(out, ids[j])

\* ------------------------------------------------ claims on assistant deltas
\* C26: an assistant delta that carries no item id and whose response is not
\* bound leaves the entries, the hints, the bindings and the anchors as they
\* are, and appends the delta to the buffer of its response only.
C26_UnboundDeltaOnlyBuffers ==
    [][\A c \in CallIds, m \in AssistantDeltaShapes,
          k \in { << "response.audio_transcript.delta", "response_audio_transcript" >>,
                  << "response.text.delta", "response_text" >> } :
          (/\ IsString(m[1])
           /\ ~MapHas(assistantMessageIdByResponseId, m[1])
           /\ ~IsString(m[2])
           /\ m[3] # << >>
           /\ Deliver(c, k[1], DeltaItemId(Router, m[1], m[2]),
                      OnAssistantDelta(Router, k[2], m[1], m[2], m[3], m[4])))
          => LET pending == pendingAssistantDeltasByResponseId
                 old == IF MapHas(pending, m[1]) THEN pending[m[1]]
                        ELSE [audioTranscript |-> << >>, text |-> << >>]
             IN  /\ transcripts' = transcripts
                 /\ previousItemIdById' = previousItemIdById
                 /\ assistantPreferredSourceById' = assistantPreferredSourceById
                 /\ assistantMessageIdByResponseId' = assistantMessageIdByResponseId
                 /\ anchoredInputIdByResponseId' = anchoredInputIdByResponseId
                 /\ DOMAIN pendingAssistantDeltasByResponseId' = DOMAIN pending \cup {m[1]}
                 /\ \A r \in DOMAIN pending \ {m[1]} :
                        pendingAssistantDeltasByResponseId'[r] = pending[r]
                 /\ pendingAssistantDeltasByResponseId'[m[1]] =
                        IF k[2] = "response_text"
                        THEN [audioTranscript |-> old.audioTranscript,
                              text |-> old.text \o m[3]]
                        ELSE [audioTranscript |-> old.audioTranscript \o m[3],
                              text |-> old.text]
      ]_vars
\* Two deltas of an unbound response have been buffered after an entry was
\* displayed, and the entry is still the only one.
C26_Witness ==
    /\ lastOp.kind = "response.text.delta"
    /\ lastOp.id = Undef
    /\ MapHas(pendingAssistantDeltasByResponseId, 1)
    /\ Len(pendingAssistantDeltasByResponseId[1].text) = 2
    /\ Len(transcripts) = 1
    /\ ~MapHas(assistantMessageIdByResponseId, 1)

\* ------------------------------------------------ claims on the anchor
\* C27: a response that has an anchor keeps that anchor in every step.
C27_AnchorStable ==
    [][\A r \in DOMAIN anchoredInputIdByResponseId :
          /\ MapHas(anchoredInputIdByResponseId', r)
          /\ anchoredInputIdByResponseId'[r] = anchoredInputIdByResponseId[r]
      ]_vars
\* A response is anchored and a later user turn has just been committed.
C27_Witness ==
    /\ lastOp.kind = "input_audio_buffer.committed"
    /\ \E r \in DOMAIN anchoredInputIdByResponseId :
          /\ anchoredInputIdByResponseId[r] # latestCommittedInputItemId
          /\ lastOp.id = latestCommittedInputItemId

\* C28: when the first message of the session is a delta of response r that
\* is only buffered and the second message commits a user turn, that user
\* turn, committed after the first delta of r, does not become the anchor of r.
C28_LateCommitNeverAnchors ==
    [][\A r \in ResponseIds :
          (/\ msgs = 2
           /\ lastOp.kind = "input_audio_buffer.committed"
           /\ lastOp.id = latestCommittedInputItemId
           /\ MapHas(pendingAssistantDeltasByResponseId, r)
           /\ ~MapHas(anchoredInputIdByResponseId, r))
          => ~(/\ MapHas(anchoredInputIdByResponseId', r)
               /\ anchoredInputIdByResponseId'[r] = latestCommittedInputItemId)
      ]_vars

\* ------------------------------------------------ claims on the hints
\* C29: output_item.added for response R and entry I sets the hint of I to
\* the predecessor the message carries; without one, to the anchor of R or,
\* when R has none, to the latest committed user turn; without any of these
\* the row of I in the hint table is left as it is.
C29_OutputItemHint ==
    [][\A c \in CallIds, m \in OutputItemAddedShapes :
          (/\ IsString(m[1])
           /\ IsString(m[2])
           /\ Deliver(c, "response.output_item.added", m[2],
                      OnOutputItemAdded(Router, m[1], m[2], m[3])))
          => LET expected ==
                     IF IsString(m[3]) THEN m[3]
                     ELSE IF MapHas(anchoredInputIdByResponseId, m[1])
                          THEN anchoredInputIdByResponseId[m[1]]
                     ELSE IF latestCommittedInputItemId # Null
                          THEN latestCommittedInputItemId
                     ELSE Undef
             IN  IF expected # Undef
                 THEN /\ MapHas(previousItemIdById', m[2])
                      /\ previousItemIdById'[m[2]] = expected
                 ELSE /\ MapHas(previousItemIdById', m[2]) = MapHas(previousItemIdById, m[2])
                      /\ MapHas(previousItemIdById, m[2])
                            => previousItemIdById'[m[2]] = previousItemIdById[m[2]]
      ]_vars
\* An output item has been added for an anchored response without an explicit
\* predecessor: its buffered delta is displayed after the anchored user turn.
C29_Witness ==
    /\ lastOp.kind = "response.output_item.added"
    /\ lastOp.id = 2
    /\ MapHas(previousItemIdById, 2)
    /\ previousItemIdById[2] = 1
    /\ MapHas(anchoredInputIdByResponseId, 1)
    /\ anchoredInputIdByResponseId[1] = 1
    /\ IdsOf(transcripts) = << 1, 2 >>

\* C30: conversation.item.created for a user item I with inline text leaves
\* an entry I whose text is the inline text alone, and the hint of I is the
\* predecessor the message carries, or null when it carries none.
C30_CreatedReplacesText ==
    [][\A c \in CallIds, m \in CreatedShapes :
          (/\ IsString(m[1])
           /\ m[2] = "user"
           /\ m[3]
           /\ Deliver(c, "conversation.item.created", m[1],
                      OnItemCreated(Router, m[1], m[2], m[3], << 2 >>, m[4])))
          => /\ \E i \in 1..Len(transcripts') : transcripts'[i].id = m[1]
             /\ \A i \in 1..Len(transcripts') :
                    transcripts'[i].id = m[1] => transcripts'[i].text = << 2 >>
             /\ MapHas(previousItemIdById', m[1])
             /\ previousItemIdById'[m[1]] = IF IsString(m[4]) THEN m[4] ELSE Null
      ]_vars
\* A user item with inline text has been created over an entry that a
\* completed transcription had already finalized.
C30_Witness ==
    /\ lastOp.kind = "conversation.item.created"
    /\ lastOp.id = 1
    /\ Len(transcripts) = 1
    /\ transcripts[1].id = 1
    /\ transcripts[1].text = << 2 >>
    /\ transcripts[1].source = "input_text"
    /\ transcripts[1].status = "final"
    /\ previousItemIdById[1] = Null

\* ------------------------------------------------ claims on sendText
\* C31: sendText with a text that is not empty after trimming, on an open
\* channel, sends conversation.item.create and then response.create and
\* returns true; with an empty or white-space text, or without a channel, it
\* sends nothing, returns false and changes neither the entries, the tables,
\* the published state, the refs nor any call.
C31_SendTextOutcome ==
    [][\A text \in TypedTexts :
          sendText(text) =>
              IF Trim(text) = << >> \/ dataChannel = Null
              THEN /\ lastSent' = << >>
                   /\ lastReturn' = FALSE
                   /\ UNCHANGED << routerVars, publishedVars, refVars, calls, stops, msgs >>
              ELSE ChannelOpen(dataChannel)
                       => /\ lastSent' = << "conversation.item.create", "response.create" >>
                          /\ lastReturn' = TRUE
      ]_vars
\* A text has been sent on the open channel of an established session.
C31_Witness ==
    /\ lastReturn
    /\ lastSent = << "conversation.item.create", "response.create" >>
    /\ dataChannel # Null
    /\ ChannelOpen(dataChannel)
    /\ Len(transcripts) = 1
    /\ transcripts[1].text = << 1 >>

\* ------------------------------------------------ claims on the binding
\* C32: a response that is bound to an entry is bound to the same entry
\* after every step.
C32_BindingStable ==
    [][\A r \in DOMAIN assistantMessageIdByResponseId :
          /\ MapHas(assistantMessageIdByResponseId', r)
          /\ assistantMessageIdByResponseId'[r] = assistantMessageIdByResponseId[r]
      ]_vars

\* ------------------------------------------------ claims on recovery
\* The session of run r is established and stored.
Established(r) ==
    /\ runs[r].loc = "returned"
    /\ runs[r].pc = "open"
    /\ runs[r].mic = "live"
    /\ coordPeerRef = r
    /\ coordLocalRef = r
    /\ coordDataChannel = r

\* C33: when the connection of the established session fails or is
\* disconnected, its remote track is removed or its microphone track ends, a
\* restart timer is pending afterwards; and once a restart timer is pending
\* for the stored session of the latest run, a later run is eventually
\* established, or the runs are used up with the last one returned and a
\* restart timer pending.
C33_RecoversEventually ==
    /\ [][\A r \in RunIds :
             (/\ Established(r)
              /\ \/ TrackEnded(r)
                 \/ RemoteTrackRemoved(r)
                 \/ \E state \in {"disconnected", "failed"} : ConnectionStateChange(r, state))
             => /\ restartTimerRef' # Null
                /\ restartTimerRef' \in DOMAIN timers'
         ]_vars
    /\ \A n \in 1..(MaxRuns - 1) :
          (/\ Len(runs) = n
           /\ runs[n].loc = "returned"
           /\ coordPeerRef = n
           /\ restartTimerRef # Null)
          ~> (\E r \in RunIds :
                 /\ r > n
                 /\ \/ Established(r)
                    \/ /\ Len(runs) = MaxRuns
                       /\ runs[r].loc = "returned"
                       /\ restartTimerRef # Null)
\* A restart that the coordinator made after the connection of the
\* established session had failed has established a new session.
C33_Witness ==
    /\ Len(runs) = 2
    /\ runs[1].pc = "closed"
    /\ runs[1].tornDown
    /\ Established(2)
    /\ restartTimerRef = Null

\* C34: from a stop() to the caller's next start(), no restart timer that
\* fires begins an execution of start(), whatever event asked for the timer.
C34_StopIsRespected ==
    [][\A h \in DOMAIN timers :
          (~sessionWanted /\ RestartTimerFires(h)) => Len(runs') = Len(runs)
      ]_vars

\* ------------------------------------------------ claims on failures
\* C35: a sendText that returns false leaves the entries, the hint table and
\* the latest committed user turn as they were.
C35_FalseChangesNothing ==
    [][\A text \in TypedTexts :
          (sendText(text) /\ ~lastReturn')
          => UNCHANGED << transcripts, previousItemIdById, latestCommittedInputItemId >>
      ]_vars

\* C36: while a start() that failed and rejected is still the current
\* generation, the published data channel and remote stream are null and so
\* are the stored peer connection and microphone.
C36_FailureUnpublishes ==
    \A c \in CallIds :
        (/\ calls[c].outcome = "rejected"
         /\ calls[c].failedAt # "none"
         /\ calls[c].generation = startGeneration)
        => /\ dataChannel = Null
           /\ remoteStream = Null
           /\ peerRef = Null
           /\ localRef = Null

\* ------------------------------------------------ claims on final entries
\* C38: a delta message leaves the text of every entry that is final as it
\* is.
C38_FinalTextFrozen ==
    [][lastOp'.kind \in { "input_audio_transcription.delta",
                          "response.audio_transcript.delta", "response.text.delta" }
          => \A i \in 1..Len(transcripts) :
                 transcripts[i].status = "final"
                 => \A j \in 1..Len(transcripts') :
                        transcripts'[j].id = transcripts[i].id
                        => transcripts'[j].text = transcripts[i].text
      ]_vars

\* ------------------------------------------------ claims on the ordering
\* The list out holds the entries of the list in, each exactly once.
IsPermutationOf(out, in) ==
    /\ Len(out) = Len(in)
    /\ \A i \in 1..Len(in) :
           Cardinality({ j \in 1..Len(out) : out[j] = in[i] }) = 1

\* C39: for every list of entries with distinct identifiers and every hint
\* table, the list the function returns holds every entry of its input
\* exactly once.
C39_OrderIsPermutation ==
    /\ oPhase >= 1 => IsPermutationOf(oFirst.list, oList)
    /\ oPhase = 2 => IsPermutationOf(oSecond.list, oFirst.list)
    /\ oPhase = 3 => IsPermutationOf(oRehinted.t, oList)
\* Three entries have been ordered under a table with a self-reference, a
\* dangling predecessor and an entry without a row, and the order changed.
C39_Witness ==
    /\ oPhase = 1
    /\ Len(oList) = 3
    /\ ~oFirst.same
    /\ \E a, b, c \in 1..3 :
          /\ MapHas(oHints, a) /\ oHints[a] = a
          /\ MapHas(oHints, b) /\ oHints[b] = 4
          /\ ~MapHas(oHints, c)

\* ------------------------------------------------ claims on the microphone
\* C37: when stop() ran while an execution of restartLocalStream awaited the
\* microphone, then once the execution has returned no microphone track is
\* live, the stored stream is null and no monitor is attached.
C37_LateRestartReleases ==
    \A k \in 1..Len(micRestarts) :
        (micRestarts[k].stopped /\ micRestarts[k].loc = "returned")
        => /\ \A s \in 1..Len(micStreams) :
                  ~micStreams[s].live /\ ~micStreams[s].monitored
           /\ micLocalRef = Null
           /\ micMonitorCleanupRef = Null

====
